---- MODULE Spec2Model ----
(***************************************************************************)
(* F1 Season Calculator: the combinatorial standings engine.               *)
(*                                                                         *)
(* championship/commands.py   read_csv, generate_race_combinations,        *)
(*                            calculate_standings, save_to_database,       *)
(*                            save_position_results, process_data          *)
(* championship/season_commands.py   process_season_data                   *)
(* db.py                      the connection pool, init_db,                *)
(*                            clear_season_data                            *)
(*                                                                         *)
(* Text columns are sequences of one-character strings, so that joining    *)
(* and splitting them is computed and not assumed.                         *)
(***************************************************************************)
EXTENDS Integers, Sequences, FiniteSets, TLC

\* ------------------------------------------------------------------ bounds
\* races in the input table (columns after the driver column)
MaxRaces == 2
\* largest point value of one cell
MaxPoints == 1
\* largest batch_size a run is started with
MaxBatch == 2
\* process runs started in one behaviour (caps the championship ids)
MaxRuns == 3
\* races of the enumerator's own specification
MaxEnumRaces == 6
\* races of the statistics' inputs
MaxStatRaces == 2
\* process runs in one behaviour of the statistics' specification
MaxStatRuns == 2
\* seconds the clock advances in one behaviour
MaxClock == 1
\* rows one pass of the position scan reads per season length: the scan's
\* LIMIT 10000 (db.py:547), brought down to the size of the tables explored
\* here, where a length has C(MaxStatRaces, k) records per run
ScanLimit == 1
\* records of a season table given to the position scan on its own
MaxScanRows == 3
\* longest season length of such a table
MaxScanLen == 3
\* race columns of the table two concurrent runs work on
MaxConcRaces == 2
\* highest race number add-race is given within its valid range
MaxRound == 2
\* add-race invocations in one behaviour
MaxAddRaces == 2

\* ------------------------------------------------------ program constants
\* DEFAULT 2025 of the season columns: the season of every row process_data inserts
DefaultSeason == 2025
\* the other season the commands are called with
OtherSeason == 2026
\* a season that has no config file data/seasons/{season}.json
UnconfiguredSeason == 9999
\* the largest race number add-race accepts
MaxRaceNumber == 24

VARIABLES
    \* the input table, as read_csv returns it
    drivers,        \* sequence of driver codes, in row order
    scores,         \* scores[d][r]: points of driver row d in race column r (1-based here)
    num_races,      \* scores.shape[1]
    tie_order,      \* how this build's np.argsort orders equal keys (see Argsort)
    \* storage, as a reader on another connection sees it (committed)
    championship_results,
    position_results,
    sqlite_sequence,        \* AUTOINCREMENT high-water mark of championship_results
    \* the connection of get_db()
    synchronous,            \* PRAGMA synchronous of the connection
    in_transaction,
    tx_championship_results,    \* the tables as the connection sees them
    tx_position_results,
    tx_sqlite_sequence,
    \* one process run
    pc,
    run,                    \* "process_data" or "process_season_data"
    season,                 \* the season argument of process_season_data
    batch_size,
    gen,                    \* race_combinations_generator
    i,                      \* enumerate() index of the next subset
    max_id,                 \* result[0] of SELECT COALESCE(MAX(championship_id), 0)
    next_championship_id,
    championship_data_batch,
    standings_batch,
    commits,                \* db.commit() calls of the current run
    \* history, for stating the properties
    runs,                   \* process runs started so far
    at_start,               \* the committed tables when the current run began
    issued,                 \* championship ids committed to this database file, in order
    issued_ever,            \* championship ids committed to any database file, in order
    runs_since_clear,       \* completed runs since storage was last empty
    first_run,              \* the tables after the first run that filled an empty storage
    last_run,               \* how the last run ended: "none", "completed", "failed" or "no_csv"
    \* the derived statistics, as committed (compute-stats commits what it writes)
    driver_statistics,      \* set of rows, PRIMARY KEY (driver_code, season)
    win_probability_cache,  \* set of rows, PRIMARY KEY (driver_code, num_races, season)
    last_compute,           \* history: the last compute-stats call
    \* the surroundings of the commands
    csv_exists,             \* os.path.exists of data/championships.csv
    now,                    \* CURRENT_TIMESTAMP
    raised,                 \* the exception that ended the current run, or "none"
    processed_count,        \* processed_count of process_season_data, which it returns
    \* flask add-race and the season files it works on
    season_csv,             \* data/championships_{season}.csv, per season
    add_race,               \* the add-race invocation in progress
    \* two runs started at the same time, each on its own connection
    writer,                 \* the connection that holds the write lock
    procs,                  \* the two runs
    yielded,                \* what the generator has yielded (enumerator specification)
    race_subset,            \* argument of calculate_standings (standings specification)
    standing                \* its result

vars == << drivers, scores, num_races, tie_order,
           championship_results, position_results, sqlite_sequence,
           synchronous, in_transaction,
           tx_championship_results, tx_position_results, tx_sqlite_sequence,
           pc, run, season, batch_size, gen, i, max_id, next_championship_id,
           championship_data_batch, standings_batch, commits,
           runs, at_start, issued, issued_ever, runs_since_clear, first_run,
           last_run, driver_statistics, win_probability_cache, last_compute,
           csv_exists, now, raised, processed_count, season_csv, add_race, writer, procs,
           yielded, race_subset, standing >>

\* ------------------------------------------------------------ small helpers
Range(s) == { s[k] : k \in DOMAIN s }

SetMax(S) == CHOOSE x \in S : \A y \in S : y <= x

RECURSIVE Pow2(_)
Pow2(n) == IF n = 0 THEN 1 ELSE 2 * Pow2(n - 1)

\* SQL NULL and Python None; a value v that may be NULL is held as << v >>
NULL == << >>

Seasons == { DefaultSeason, OtherSeason }

RECURSIVE SumOver(_, _)
\* sum of f[k] for k in S
SumOver(f, S) ==
    IF S = {} THEN 0
    ELSE LET k == CHOOSE x \in S : TRUE IN f[k] + SumOver(f, S \ {k})

\* --------------------------------------------------------------- text
DigitChars == << "0", "1", "2", "3", "4", "5", "6", "7", "8", "9" >>

RECURSIVE StrNat(_)
StrNat(n) ==
    IF n < 10 THEN << DigitChars[n + 1] >>
    ELSE StrNat(n \div 10) \o << DigitChars[(n % 10) + 1] >>

\* str(n) of a Python int
Str(n) == IF n < 0 THEN << "-" >> \o StrNat(0 - n) ELSE StrNat(n)

RECURSIVE Join(_)
\* ','.join(parts)
Join(parts) ==
    IF Len(parts) = 0 THEN << >>
    ELSE IF Len(parts) = 1 THEN parts[1]
    ELSE parts[1] \o << "," >> \o Join(Tail(parts))

RECURSIVE Split(_)
\* s.split(','): one part more than there are commas
Split(s) ==
    LET commas == { k \in DOMAIN s : s[k] = "," } IN
    IF commas = {} THEN << s >>
    ELSE LET k == CHOOSE c \in commas : \A c2 \in commas : c <= c2
         IN << SubSeq(s, 1, k - 1) >> \o Split(SubSeq(s, k + 1, Len(s)))

DigitValue(c) == (CHOOSE k \in 1..10 : DigitChars[k] = c) - 1

RECURSIVE IntNat(_)
IntNat(s) ==
    IF Len(s) = 1 THEN DigitValue(s[1])
    ELSE 10 * IntNat(SubSeq(s, 1, Len(s) - 1)) + DigitValue(s[Len(s)])

\* int(s) of a decimal string
Int_(s) == IF s[1] = "-" THEN 0 - IntNat(Tail(s)) ELSE IntNat(s)

\* -------------------------------------------------- Combination Enumerator
\* itertools.combinations(range(n), r) keeps a list of r indices; the first is
\* 0, 1, ..., r-1.  Index values are 0-based as in the code, positions 1-based.
FirstCombination(r) == [ k \in 1..r |-> k - 1 ]

\* the positions of `indices` that can still be raised
Movable(n, r, indices) == { k \in 1..r : indices[k] # (k - 1) + n - r }

\* the step of itertools.combinations: raise the rightmost movable index and
\* reset the ones after it
NextCombination(n, r, indices) ==
    LET k == SetMax(Movable(n, r, indices)) IN
    [ j \in 1..r |-> IF j < k THEN indices[j] ELSE indices[k] + 1 + (j - k) ]

\* a size order that leaves out the full set: range(1, num_races)
SizesWithoutFullSet(n) == [ k \in 1..(n - 1) |-> k ]

\* a size order that starts with the full set: range(num_races, 0, -1)
SizesDescending(n) == [ k \in 1..n |-> n + 1 - k ]

\* for r in range(1, num_races + 1): the subset sizes, in the order they are taken
Sizes(n) == [ k \in 1..n |-> k ]

\* generate_race_combinations(num_races) before its first yield; s is the
\* position of the outer loop in Sizes, indices the state of the inner
\* itertools.combinations
GenStart(n) ==
    IF Len(Sizes(n)) >= 1
    THEN [ done |-> FALSE, s |-> 1, indices |-> FirstCombination(Sizes(n)[1]) ]
    ELSE [ done |-> TRUE, s |-> 0, indices |-> << >> ]

\* the generator after yielding g.indices
GenAdvance(n, g) ==
    IF Movable(n, Len(g.indices), g.indices) # {}
    THEN [ g EXCEPT !.indices = NextCombination(n, Len(g.indices), g.indices) ]
    ELSE IF g.s < Len(Sizes(n))
    THEN [ done |-> FALSE, s |-> g.s + 1, indices |-> FirstCombination(Sizes(n)[g.s + 1]) ]
    ELSE [ done |-> TRUE, s |-> 0, indices |-> << >> ]

RECURSIVE Drain(_, _)
\* everything the generator still yields, in order
Drain(n, g) == IF g.done THEN << >> ELSE << g.indices >> \o Drain(n, GenAdvance(n, g))

\* ---------------------------------------------------- Standings Calculator
\* the sum over every race column: scores.sum(axis=1)
SubsetScoresAllRaces(sc, subset) ==
    [ d \in DOMAIN sc |-> SumOver(sc[d], DOMAIN sc[d]) ]

\* scores[:, race_subset].sum(axis=1); race_subset holds 0-based columns
SubsetScores(sc, subset) ==
    [ d \in DOMAIN sc |-> SumOver([ k \in DOMAIN subset |-> sc[d][subset[k] + 1] ],
                                  DOMAIN subset) ]

Perms(D) == { p \in [1..D -> 1..D] : \A a, b \in 1..D : p[a] = p[b] => a = b }

\* np.argsort(keys) with the default kind: the result sorts keys ascending; the
\* order of equal keys is whatever the build's sort produces (not a stable
\* sort), here the build's fixed preference `tie` among equal keys.
Argsort(keys, tie) ==
    CHOOSE p \in Perms(Len(keys)) :
        \A a, b \in 1..Len(keys) :
            a < b => \/ keys[p[a]] < keys[p[b]]
                     \/ keys[p[a]] = keys[p[b]] /\ tie[p[a]] < tie[p[b]]

\* calculate_standings(drivers, scores, race_subset)
CalculateStandings(drv, sc, subset, tie) ==
    LET subset_scores == SubsetScores(sc, subset)
        sorted_indices == Argsort([ d \in DOMAIN subset_scores |-> 0 - subset_scores[d] ], tie)
    IN [ sorted_drivers |-> [ k \in DOMAIN sorted_indices |-> drv[sorted_indices[k]] ],
         sorted_scores  |-> [ k \in DOMAIN sorted_indices |-> subset_scores[sorted_indices[k]] ] ]

\* ------------------------------------------------------------- the input
\* the drivers of Scenario A, in row order
Roster == << << "V", "E", "R" >>, << "N", "O", "R" >>, << "L", "E", "C" >> >>

\* race columns of the pipeline's inputs: the two races of Scenario A
RaceColumns == { << 25, 18, 15 >>, << 18, 25, 15 >> }

InputTables(D, N) ==
    { [ d \in 1..D |-> [ r \in 1..N |-> cols[r][d] ] ] : cols \in [1..N -> RaceColumns] }

\* any table of small non-negative integers
AnyTables(D, N) == [1..D -> [1..N -> 0..MaxPoints]]

\* what every variable of one process run holds while no run is in progress
RunIdle ==
    /\ pc = "idle"
    /\ run = "none"
    /\ season = DefaultSeason
    /\ batch_size = 1
    /\ gen = GenStart(0)
    /\ i = 0
    /\ max_id = 0
    /\ next_championship_id = 1
    /\ championship_data_batch = << >>
    /\ standings_batch = << >>
    /\ commits = 0
    /\ raised = "none"

\* a freshly initialised database (init_db) on a fresh pooled connection
StorageFresh ==
    /\ championship_results = << >>
    /\ position_results = << >>
    /\ sqlite_sequence = 0
    /\ synchronous = "NORMAL"
    /\ in_transaction = FALSE
    /\ tx_championship_results = << >>
    /\ tx_position_results = << >>
    /\ tx_sqlite_sequence = 0
    /\ driver_statistics = {}
    /\ win_probability_cache = {}

\* the records of a table, by their ids (a record is never updated in place)
RecordIds(table) == { table[k].championship_id : k \in DOMAIN table }

\* no compute-stats call has been made
NoCompute ==
    [ outcome |-> "none", computed |-> {}, records |-> {} ]

HistoryFresh ==
    /\ runs = 0
    /\ at_start = [ championship_results |-> << >>, position_results |-> << >> ]
    /\ issued = << >>
    /\ issued_ever = << >>
    /\ runs_since_clear = 0
    /\ first_run = [ taken |-> FALSE, championship_results |-> << >>, position_results |-> << >> ]
    /\ last_run = "none"
    /\ last_compute = NoCompute

\* no season file, no add-race under way, no second connection
NoSeasonCsv == [ exists |-> FALSE, rows |-> << >> ]

\* the seasons add-race is called with
AddRaceSeasons == { DefaultSeason, UnconfiguredSeason }

NoSeasonFiles == [ s \in AddRaceSeasons |-> NoSeasonCsv ]

\* the arguments of save_season_csv when it has not been called
NoSave == [ drivers |-> << >>, race_data |-> << >>, max_round |-> 0 ]

NoAddRace ==
    [ pc |-> "idle", calls |-> 0, season |-> DefaultSeason, race_num |-> 0,
      results |-> << >>, skip_reprocess |-> FALSE,
      outcome |-> "none", saved |-> NoSave, raised |-> "none" ]

NoProcs == << >>

BesideIdle ==
    /\ processed_count = 0
    /\ season_csv = NoSeasonFiles
    /\ add_race = NoAddRace
    /\ writer = 0
    /\ procs = NoProcs

storage_vars == << championship_results, position_results, sqlite_sequence,
                   synchronous, in_transaction,
                   tx_championship_results, tx_position_results, tx_sqlite_sequence,
                   driver_statistics, win_probability_cache >>
run_vars == << pc, run, season, batch_size, gen, i, max_id, next_championship_id,
               championship_data_batch, standings_batch, commits, raised >>
history_vars == << runs, at_start, issued, issued_ever, runs_since_clear, first_run, last_run,
                  last_compute >>
\* what the commands are given: the table, the build's sort, the file, the clock
input_vars == << drivers, scores, num_races, tie_order, csv_exists, now >>
\* what belongs to add-race and to the two concurrent runs
beside_vars == << season_csv, add_race, writer, procs >>

\* ============================================ the enumerator on its own
EnumInit ==
    /\ num_races \in 0..MaxEnumRaces
    /\ drivers = << >> /\ scores = << >> /\ tie_order = << >>
    /\ csv_exists = TRUE /\ now = 0 /\ raised = "none"
    /\ StorageFresh /\ HistoryFresh /\ BesideIdle
    /\ pc = "idle" /\ run = "none" /\ season = DefaultSeason /\ batch_size = 1
    /\ i = 0 /\ max_id = 0 /\ next_championship_id = 1
    /\ championship_data_batch = << >> /\ standings_batch = << >> /\ commits = 0
    /\ gen = GenStart(num_races)
    /\ yielded = << >>
    /\ race_subset = << >>
    /\ standing = [ sorted_drivers |-> << >>, sorted_scores |-> << >> ]

\* one `yield combination` of generate_race_combinations
Yield ==
    /\ ~gen.done
    /\ yielded' = Append(yielded, gen.indices)
    /\ gen' = GenAdvance(num_races, gen)
    /\ UNCHANGED << beside_vars, input_vars, storage_vars, history_vars, race_subset, standing,
                    processed_count,
                    pc, run, season, batch_size, i, max_id, next_championship_id,
                    championship_data_batch, standings_batch, commits, raised >>

EnumNext == Yield

EnumSpec == EnumInit /\ [][EnumNext]_vars

\* ====================================== calculate_standings on its own
StandInit ==
    /\ \E D \in 1..Len(Roster) :
          /\ drivers = SubSeq(Roster, 1, D)
          /\ tie_order \in Perms(D)
          /\ \E N \in 1..MaxRaces : num_races = N /\ scores \in AnyTables(D, N)
    /\ csv_exists = TRUE /\ now = 0
    /\ StorageFresh /\ HistoryFresh /\ RunIdle /\ BesideIdle
    /\ yielded = << >>
    /\ race_subset = << >>
    /\ standing = [ sorted_drivers |-> << >>, sorted_scores |-> << >> ]

\* one call calculate_standings(drivers, scores, race_subset) with a subset
\* the generator yields
Calculate ==
    /\ race_subset = << >>
    /\ \E subset \in Range(Drain(num_races, GenStart(num_races))) :
          /\ race_subset' = subset
          /\ standing' = CalculateStandings(drivers, scores, subset, tie_order)
    /\ UNCHANGED << beside_vars, input_vars, storage_vars, run_vars, history_vars, yielded,
                    processed_count >>

StandNext == Calculate

StandSpec == StandInit /\ [][StandNext]_vars

\* ======================================================= the pipeline
\* ----------------------------------------------------------- storage
MaxChampionshipId(table) ==
    IF table = << >> THEN 0
    ELSE SetMax({ table[k].championship_id : k \in DOMAIN table })

\* a rowid taken without AUTOINCREMENT: one more than the largest rowid in the table
NextRowidWithoutAutoincrement(table, seq) == MaxChampionshipId(table) + 1

\* championship_id INTEGER PRIMARY KEY AUTOINCREMENT: one more than the largest
\* rowid the table has ever held (sqlite_sequence), deleted rows included
NextRowid(table, seq) ==
    (IF seq > MaxChampionshipId(table) THEN seq ELSE MaxChampionshipId(table)) + 1

RECURSIVE InsertChampionships(_, _, _)
\* INSERT INTO championship_results (num_races, rounds, standings, winner, points):
\* the rows of `batch` in order; season takes its DEFAULT
InsertChampionships(table, seq, batch) ==
    IF batch = << >> THEN [ table |-> table, seq |-> seq ]
    ELSE LET id == NextRowid(table, seq)
             row == [ championship_id |-> id,
                      season |-> DefaultSeason,
                      num_races |-> batch[1].num_races,
                      rounds |-> batch[1].rounds,
                      standings |-> batch[1].standings,
                      winner |-> batch[1].winner,
                      points |-> batch[1].points ]
         IN InsertChampionships(Append(table, row), id, Tail(batch))

\* save_to_database(db, table_name, championship_data): no commit
SaveToDatabase(table, seq, batch) ==
    IF batch = << >> THEN [ table |-> table, seq |-> seq ]
    ELSE InsertChampionships(table, seq, batch)

\* INSERT INTO position_results (championship_id, driver_code, position, points)
SavePositionResults(table, position_data) ==
    IF position_data = << >> THEN table
    ELSE table \o [ k \in DOMAIN position_data |->
                      [ championship_id |-> position_data[k].championship_id,
                        driver_code |-> position_data[k].driver_code,
                        position |-> position_data[k].position,
                        points |-> position_data[k].points,
                        season |-> DefaultSeason ] ]

\* what another connection reads once a flush has committed its rows
VisibleWhenFlushCommits(committed, written) == written

\* what another connection reads after a flush: save_to_database and
\* save_position_results leave the commit to the caller
VisibleAfterFlush(committed, written) == committed

\* ----------------------------------------------------------- one run
\* the tuple with the rounds as the 0-based column indices
ChampionshipTupleZeroBased(subset, st) ==
    [ num_races |-> Len(subset),
      rounds |-> Join([ k \in DOMAIN subset |-> Str(subset[k]) ]),
      standings |-> Join(st.sorted_drivers),
      winner |-> st.sorted_drivers[1],
      points |-> Join([ k \in DOMAIN st.sorted_scores |-> Str(st.sorted_scores[k]) ]) ]

\* the tuple appended to championship_data_batch for one subset
ChampionshipTuple(subset, st) ==
    [ num_races |-> Len(subset),
      rounds |-> Join([ k \in DOMAIN subset |-> Str(subset[k] + 1) ]),
      standings |-> Join(st.sorted_drivers),
      winner |-> st.sorted_drivers[1],
      points |-> Join([ k \in DOMAIN st.sorted_scores |-> Str(st.sorted_scores[k]) ]) ]

RECURSIVE PositionData(_, _, _)
\* position_data of a batch: for j, (drivers_arr, scores_arr) in enumerate(standings_batch),
\* champ_id = next_championship_id + j, positions from 1
PositionData(sb, next_id, j) ==
    IF j >= Len(sb) THEN << >>
    ELSE [ pos \in DOMAIN sb[j + 1].sorted_drivers |->
             [ championship_id |-> next_id + j,
               driver_code |-> sb[j + 1].sorted_drivers[pos],
               position |-> pos,
               points |-> sb[j + 1].sorted_scores[pos] ] ]
         \o PositionData(sb, next_id, j + 1)

\* the start of process_data and of process_season_data: the pragmas, BEGIN
\* IMMEDIATE, and the read of the largest championship_id
Begin(kind, s, bs) ==
    /\ pc = "idle"
    /\ csv_exists
    /\ runs < MaxRuns
    /\ runs' = runs + 1
    /\ run' = kind
    /\ season' = s
    /\ batch_size' = bs
    /\ synchronous' = "OFF"
    /\ in_transaction' = TRUE
    /\ max_id' = MaxChampionshipId(tx_championship_results)
    /\ next_championship_id' = MaxChampionshipId(tx_championship_results) + 1
    /\ gen' = GenStart(num_races)
    /\ i' = 0
    /\ championship_data_batch' = << >>
    /\ standings_batch' = << >>
    /\ commits' = 0
    /\ pc' = "loop"
    /\ at_start' = [ championship_results |-> championship_results,
                     position_results |-> position_results ]
    /\ last_run' = "none"
    /\ raised' = "none"
    /\ processed_count' = 0
    /\ UNCHANGED << beside_vars, input_vars, championship_results, position_results, sqlite_sequence,
                    tx_championship_results, tx_position_results, tx_sqlite_sequence,
                    driver_statistics, win_probability_cache, last_compute,
                    issued, issued_ever, runs_since_clear, first_run,
                    yielded, race_subset, standing >>

\* process_data(batch_size) up to its loop
ProcessData == \E bs \in 1..MaxBatch : Begin("process_data", DefaultSeason, bs)

\* process_season_data(season, csv_path, batch_size) up to its loop
ProcessSeasonData ==
    \E s \in { DefaultSeason, OtherSeason } : \E bs \in 1..MaxBatch :
        Begin("process_season_data", s, bs)

\* the connection's PRAGMA synchronous had process_data looked for the file
\* only after its pragmas
SynchronousAfterPragmas(current) == "OFF"

\* the connection's PRAGMA synchronous when process_data returns at `if not
\* os.path.exists(csv_path)`: the check comes before the pragmas
SynchronousAtCsvCheck(current) == current

\* process_data without data/championships.csv: "CSV file not found", return
ProcessDataNoCsv ==
    /\ pc = "idle"
    /\ ~csv_exists
    /\ run' = "process_data"
    /\ synchronous' = SynchronousAtCsvCheck(synchronous)
    /\ raised' = "none"
    /\ last_run' = "no_csv"
    /\ UNCHANGED << beside_vars, processed_count, input_vars, championship_results, position_results, sqlite_sequence,
                    in_transaction, tx_championship_results, tx_position_results,
                    tx_sqlite_sequence, driver_statistics, win_probability_cache,
                    pc, season, batch_size, gen, i, max_id, next_championship_id,
                    championship_data_batch, standings_batch, commits,
                    runs, at_start, issued, issued_ever, runs_since_clear, first_run,
                    last_compute, yielded, race_subset, standing >>

\* process_season_data when its csv_path (the same file here) is missing:
\* read_csv raises before the pragmas
ProcessSeasonDataNoCsv ==
    /\ pc = "idle"
    /\ ~csv_exists
    /\ run' = "process_season_data"
    /\ raised' = "FileNotFoundError"
    /\ last_run' = "failed"
    /\ UNCHANGED << beside_vars, processed_count, input_vars, storage_vars,
                    pc, season, batch_size, gen, i, max_id, next_championship_id,
                    championship_data_batch, standings_batch, commits,
                    runs, at_start, issued, issued_ever, runs_since_clear, first_run,
                    last_compute, yielded, race_subset, standing >>

\* the file is taken away between two commands
RemoveCsv ==
    /\ pc = "idle"
    /\ csv_exists
    /\ csv_exists' = FALSE
    /\ UNCHANGED << beside_vars, drivers, scores, num_races, tie_order, now, processed_count,
                    storage_vars, run_vars, history_vars, yielded, race_subset, standing >>

\* process_season_data passes season=season to save_to_database and to
\* save_position_results, which take no such argument: the call raises
\* TypeError before anything is written
FlushRaises == run = "process_season_data"

\* the position rows of the next batch numbered from where this batch began
NextBatchStartUnmoved(next_id, batch) == next_id

\* next_championship_id += len(championship_data_batch), after a flush in the loop
NextBatchStart(next_id, batch) == next_id + Len(batch)

\* one pass of the loop body for the next subset; the batch is flushed when
\* (i + 1) % batch_size == 0
ProcessSubset ==
    /\ pc = "loop"
    /\ ~gen.done
    /\ drivers # << >>
    /\ LET st == CalculateStandings(drivers, scores, gen.indices, tie_order)
           cb == Append(championship_data_batch, ChampionshipTuple(gen.indices, st))
           sb == Append(standings_batch, st)
           flush == (i + 1) % batch_size = 0
           saved == SaveToDatabase(tx_championship_results, tx_sqlite_sequence, cb)
           positions == SavePositionResults(tx_position_results,
                                            PositionData(sb, next_championship_id, 0))
       IN /\ flush => ~FlushRaises
          /\ IF flush
             THEN /\ tx_championship_results' = saved.table
                  /\ tx_sqlite_sequence' = saved.seq
                  /\ tx_position_results' = positions
                  /\ championship_results' = VisibleAfterFlush(championship_results, saved.table)
                  /\ position_results' = VisibleAfterFlush(position_results, positions)
                  /\ next_championship_id' = NextBatchStart(next_championship_id, cb)
                  /\ championship_data_batch' = << >>
                  /\ standings_batch' = << >>
             ELSE /\ championship_data_batch' = cb
                  /\ standings_batch' = sb
                  /\ UNCHANGED << tx_championship_results, tx_sqlite_sequence,
                                  tx_position_results, championship_results,
                                  position_results, next_championship_id >>
    /\ i' = i + 1
    /\ gen' = GenAdvance(num_races, gen)
    /\ UNCHANGED << beside_vars, input_vars, sqlite_sequence, synchronous, in_transaction,
                    driver_statistics, win_probability_cache,
                    pc, run, season, batch_size, max_id, commits, raised, processed_count,
                    history_vars, yielded, race_subset, standing >>

\* the loop body on a table without data rows: calculate_standings returns
\* empty arrays and `winner = sorted_drivers[0]` raises IndexError, after the
\* pragmas and BEGIN IMMEDIATE.  Nothing catches it.
SubsetRaises ==
    /\ pc = "loop"
    /\ ~gen.done
    /\ CalculateStandings(drivers, scores, gen.indices, tie_order).sorted_drivers = << >>
    /\ raised' = "IndexError"
    /\ pc' = "aborted"
    /\ UNCHANGED << beside_vars, input_vars, storage_vars,
                    run, season, batch_size, gen, i, max_id, next_championship_id,
                    championship_data_batch, standings_batch, commits, processed_count,
                    history_vars, yielded, race_subset, standing >>

\* a flush that raises: the TypeError of process_season_data, or a write that
\* the storage refuses, in save_to_database or after it in
\* save_position_results.  Nothing catches it: no commit, no rollback, the
\* pragma is not restored.
FlushFails ==
    /\ pc = "loop"
    /\ \E stage \in { "championship_results", "position_results" } :
          /\ FlushRaises => stage = "championship_results"
          /\ LET in_loop == ~gen.done /\ drivers # << >> /\ (i + 1) % batch_size = 0
                 at_end == gen.done /\ championship_data_batch # << >>
                 st == CalculateStandings(drivers, scores, gen.indices, tie_order)
                 cb == IF in_loop
                       THEN Append(championship_data_batch, ChampionshipTuple(gen.indices, st))
                       ELSE championship_data_batch
                 sb == IF in_loop THEN Append(standings_batch, st) ELSE standings_batch
                 saved == SaveToDatabase(tx_championship_results, tx_sqlite_sequence, cb)
             IN /\ in_loop \/ at_end
                /\ championship_data_batch' = cb
                /\ standings_batch' = sb
                /\ IF stage = "position_results"
                   THEN /\ tx_championship_results' = saved.table
                        /\ tx_sqlite_sequence' = saved.seq
                        /\ championship_results'
                              = VisibleAfterFlush(championship_results, saved.table)
                   ELSE UNCHANGED << tx_championship_results, tx_sqlite_sequence,
                                     championship_results >>
    /\ raised' = IF FlushRaises THEN "TypeError" ELSE "sqlite3.Error"
    /\ pc' = "aborted"
    /\ UNCHANGED << beside_vars, input_vars, position_results, sqlite_sequence, synchronous,
                    in_transaction, tx_position_results,
                    driver_statistics, win_probability_cache,
                    run, season, batch_size, gen, i, max_id, next_championship_id, commits,
                    processed_count, history_vars, yielded, race_subset, standing >>

NewIds(before, after) ==
    SubSeq([ k \in DOMAIN after |-> after[k].championship_id ], Len(before) + 1, Len(after))

\* processed_count of process_season_data: 0, and i + 1 only where a final
\* batch is left to flush (`index` is the number of subsets enumerated)
ProcessedCount(index, batch) == IF batch # << >> THEN index ELSE 0

\* the end of the run: the remaining batch is flushed, db.commit(), PRAGMA
\* synchronous=NORMAL
FinishRun ==
    /\ pc = "loop"
    /\ gen.done
    /\ championship_data_batch # << >> => ~FlushRaises
    /\ LET saved == SaveToDatabase(tx_championship_results, tx_sqlite_sequence,
                                   championship_data_batch)
           positions == SavePositionResults(tx_position_results,
                            PositionData(standings_batch, next_championship_id, 0))
           ids == NewIds(championship_results, saved.table)
           since == IF championship_results = << >> /\ position_results = << >>
                    THEN 1 ELSE runs_since_clear + 1
       IN /\ tx_championship_results' = saved.table
          /\ tx_sqlite_sequence' = saved.seq
          /\ tx_position_results' = positions
          /\ championship_results' = saved.table
          /\ position_results' = positions
          /\ sqlite_sequence' = saved.seq
          /\ issued' = issued \o ids
          /\ issued_ever' = issued_ever \o ids
          /\ runs_since_clear' = since
          /\ first_run' = IF ~first_run.taken /\ since = 1
                          THEN [ taken |-> TRUE, championship_results |-> saved.table,
                                 position_results |-> positions ]
                          ELSE first_run
    /\ commits' = commits + 1
    /\ in_transaction' = FALSE
    /\ synchronous' = "NORMAL"
    /\ last_run' = "completed"
    /\ pc' = "idle"
    /\ processed_count' = IF run = "process_season_data"
                          THEN ProcessedCount(i, championship_data_batch)
                          ELSE processed_count
    /\ championship_data_batch' = << >>
    /\ standings_batch' = << >>
    /\ UNCHANGED << beside_vars, input_vars, run, season, batch_size, gen, i, max_id,
                    next_championship_id, raised, runs, at_start,
                    driver_statistics, win_probability_cache, last_compute,
                    yielded, race_subset, standing >>

\* what the storage holds once the aborted connection is given back to the
\* pool: its open transaction is rolled back
RolledBack(committed, written) == committed

\* close_db at the end of the application context, after a run that raised:
\* the connection goes back to the pool, which rolls its transaction back;
\* the connection's pragmas stay as they are
CloseDb ==
    /\ pc = "aborted"
    /\ championship_results' = RolledBack(at_start.championship_results, tx_championship_results)
    /\ position_results' = RolledBack(at_start.position_results, tx_position_results)
    /\ tx_championship_results' = championship_results'
    /\ tx_position_results' = position_results'
    /\ tx_sqlite_sequence' = sqlite_sequence
    /\ in_transaction' = FALSE
    /\ championship_data_batch' = << >>
    /\ standings_batch' = << >>
    /\ last_run' = "failed"
    /\ pc' = "idle"
    /\ UNCHANGED << beside_vars, input_vars, sqlite_sequence, synchronous,
                    driver_statistics, win_probability_cache, last_compute,
                    run, season, batch_size, gen, i, max_id, next_championship_id, commits,
                    raised, runs, at_start, issued, issued_ever, runs_since_clear, first_run,
                    processed_count, yielded, race_subset, standing >>

SeasonRows(table, s) == { k \in DOMAIN table : table[k].season = s }

\* a DELETE that removes nothing
DeleteNothing(table, s) == table

RECURSIVE DeleteSeason(_, _)
\* DELETE FROM <table> WHERE season = ?
DeleteSeason(table, s) ==
    IF table = << >> THEN << >>
    ELSE IF table[1].season = s THEN DeleteSeason(Tail(table), s)
    ELSE << table[1] >> \o DeleteSeason(Tail(table), s)

\* what clear_season_data(season) returns: record_count, the COUNT(*) of the
\* season's championship rows (`return 0` where it is 0)
ClearSeasonDataReturns(table, s) == Cardinality(SeasonRows(table, s))

\* clear_season_data(season): returns 0 and deletes nothing when the season has
\* no championship rows; sqlite_sequence is not touched by DELETE
ClearSeasonDataDb(s) ==
    /\ pc = "idle"
    /\    LET record_count == ClearSeasonDataReturns(championship_results, s) IN
          /\ IF record_count = 0
             THEN UNCHANGED << championship_results, position_results,
                               tx_championship_results, tx_position_results,
                               driver_statistics, win_probability_cache, last_compute,
                               runs_since_clear, last_run >>
             ELSE /\ championship_results' = DeleteSeason(championship_results, s)
                  /\ position_results' = DeleteSeason(position_results, s)
                  /\ driver_statistics' = { r \in driver_statistics : r.season # s }
                  /\ win_probability_cache' = { r \in win_probability_cache : r.season # s }
                  /\ last_compute' = NoCompute
                  /\ tx_championship_results' = championship_results'
                  /\ tx_position_results' = position_results'
                  /\ runs_since_clear' = IF championship_results' = << >>
                                            /\ position_results' = << >>
                                         THEN 0 ELSE runs_since_clear
                  /\ last_run' = "none"
    /\ UNCHANGED << input_vars, sqlite_sequence, tx_sqlite_sequence, synchronous,
                    in_transaction, run_vars, processed_count, runs, at_start, issued, issued_ever,
                    first_run, yielded, race_subset, standing >>

\* clear_season_data(season) called on its own
ClearSeasonDataOf(s) == ClearSeasonDataDb(s) /\ UNCHANGED beside_vars

\* flask clear-season --season s --confirm
ClearSeasonData == \E s \in { DefaultSeason, OtherSeason } : ClearSeasonDataOf(s)

\* init_db(clear_existing=True) on an existing database: the engine is
\* disposed, the database file and its -wal and -shm files are removed, and
\* the schema is created in a new file through a new connection (whose
\* connect event sets synchronous=NORMAL)
InitDbClear ==
    /\ pc = "idle"
    /\ championship_results' = << >>
    /\ position_results' = << >>
    /\ sqlite_sequence' = 0
    /\ tx_championship_results' = << >>
    /\ tx_position_results' = << >>
    /\ tx_sqlite_sequence' = 0
    /\ synchronous' = "NORMAL"
    /\ in_transaction' = FALSE
    /\ driver_statistics' = {}
    /\ win_probability_cache' = {}
    /\ last_compute' = NoCompute
    /\ issued' = << >>
    /\ runs_since_clear' = 0
    /\ last_run' = "none"
    /\ UNCHANGED << beside_vars, processed_count, input_vars, run_vars, runs, at_start, issued_ever, first_run,
                    yielded, race_subset, standing >>

\* the table of data/championships.csv: the roster with its race columns, or
\* a header line with race columns and no data row
Init ==
    /\ \/ /\ drivers = Roster
          /\ \E N \in 0..MaxRaces : num_races = N /\ scores \in InputTables(Len(Roster), N)
       \/ /\ drivers = << >>
          /\ scores = << >>
          /\ num_races \in 1..MaxRaces
    /\ tie_order \in Perms(Len(drivers))
    /\ csv_exists = TRUE /\ now = 0
    /\ StorageFresh /\ HistoryFresh /\ RunIdle /\ BesideIdle
    /\ yielded = << >>
    /\ race_subset = << >>
    /\ standing = [ sorted_drivers |-> << >>, sorted_scores |-> << >> ]

Next ==
    \/ ProcessData
    \/ ProcessSeasonData
    \/ ProcessSubset
    \/ SubsetRaises
    \/ FlushFails
    \/ FinishRun
    \/ CloseDb
    \/ ClearSeasonData
    \/ InitDbClear

Spec == Init /\ [][Next]_vars

\* format_championship_data(row): the round numbers, and the drivers with
\* their points, read back from the text columns
FormatChampionshipData(row) ==
    LET rounds == Split(row.rounds)
        points == Split(row.points)
    IN [ round_numbers |-> [ k \in DOMAIN rounds |-> Int_(rounds[k]) ],
         drivers |-> Split(row.standings),
         points |-> [ k \in DOMAIN points |-> Int_(points[k]) ] ]

\* ============================================== the derived statistics
\* db.py compute_stats_for_season; championship/season_commands.py
\* compute_season_stats is the same text without the db.commit() between the
\* two tables.

RECURSIVE Strip(_)
\* str.strip() for blanks
Strip(s) ==
    IF s # << >> /\ s[1] = " " THEN Strip(Tail(s))
    ELSE IF s # << >> /\ s[Len(s)] = " " THEN Strip(SubSeq(s, 1, Len(s) - 1))
    ELSE s

\* [d.strip() for d in standings.split(",")]
DriversList(standings) ==
    LET parts == Split(standings) IN [ k \in DOMAIN parts |-> Strip(parts[k]) ]

\* SELECT ... FROM championship_results WHERE season = ?, in rowid order
SeasonRecords(table, s) == SelectSeq(table, LAMBDA r : r.season = s)

\* SELECT DISTINCT season FROM championship_results ORDER BY season
SeasonsWithData(table) ==
    SelectSeq(<< DefaultSeason, OtherSeason >>, LAMBDA s : SeasonRows(table, s) # {})

\* SELECT championship_id, standings, num_races FROM championship_results
\* WHERE num_races = ? AND season = ? ORDER BY championship_id DESC LIMIT 10000
ScanRows(table, s, n) ==
    LET ordered == SortSeq(SelectSeq(table, LAMBDA r : r.num_races = n /\ r.season = s),
                           LAMBDA a, b : a.championship_id > b.championship_id)
    IN SubSeq(ordered, 1, IF Len(ordered) < ScanLimit THEN Len(ordered) ELSE ScanLimit)

\* driver_stats[driver] when the driver is first seen
InitialStats(position, row) ==
    [ highest_position |-> position,
      highest_position_max_races |-> row.num_races,
      highest_position_championship_id |-> row.championship_id,
      best_margin |-> NULL,
      best_margin_championship_id |-> NULL,
      win_count |-> 0 ]

RECURSIVE ScanStandings(_, _, _, _)
\* for position, driver in enumerate(drivers_list, start=1)
ScanStandings(acc, drivers_list, row, position) ==
    IF position > Len(drivers_list) THEN acc
    ELSE LET driver == drivers_list[position]
             ds == acc.driver_stats
             found == IF position = 1 THEN acc.drivers_to_find \ { driver }
                      ELSE acc.drivers_to_find
             next ==
                IF driver \notin DOMAIN ds
                THEN [ driver_stats |-> ds @@ (driver :> InitialStats(position, row)),
                       drivers_to_find |-> found ]
                ELSE IF position < ds[driver].highest_position
                THEN [ driver_stats |->
                         [ ds EXCEPT ![driver].highest_position = position,
                                     ![driver].highest_position_max_races = row.num_races,
                                     ![driver].highest_position_championship_id
                                         = row.championship_id ],
                       drivers_to_find |-> found ]
                ELSE IF /\ position = ds[driver].highest_position
                        /\ row.num_races > ds[driver].highest_position_max_races
                THEN [ driver_stats |->
                         [ ds EXCEPT ![driver].highest_position_max_races = row.num_races,
                                     ![driver].highest_position_championship_id
                                         = row.championship_id ],
                       drivers_to_find |-> acc.drivers_to_find ]
                ELSE acc
         IN ScanStandings(next, drivers_list, row, position + 1)

RECURSIVE ScanRecords(_, _)
\* for row in rows
ScanRecords(acc, rows) ==
    IF rows = << >> THEN acc
    ELSE ScanRecords(ScanStandings(acc, DriversList(rows[1].standings), rows[1], 1),
                     Tail(rows))

RECURSIVE ScanLengthsUntilAWinner(_, _, _, _)
\* a scan that ends as soon as any driver has been seen in position 1
ScanLengthsUntilAWinner(acc, table, s, n) ==
    IF n < 1 \/ (\E d \in DOMAIN acc.driver_stats : acc.driver_stats[d].highest_position = 1)
    THEN acc
    ELSE ScanLengthsUntilAWinner(ScanRecords(acc, ScanRows(table, s, n)), table, s, n - 1)

RECURSIVE ScanLengths(_, _, _, _)
\* for num_races in range(max_races, 0, -1): if not drivers_to_find: break
ScanLengths(acc, table, s, n) ==
    IF n < 1 \/ acc.drivers_to_find = {} THEN acc
    ELSE ScanLengths(ScanRecords(acc, ScanRows(table, s, n)), table, s, n - 1)

\* step 3: driver_stats after the scan over the season lengths
HighestPositions(table, s, all_drivers, max_races) ==
    ScanLengths([ driver_stats |-> [ d \in {} |-> 0 ],
                  drivers_to_find |-> Range(all_drivers) ],
                table, s, max_races).driver_stats

\* step 4: SELECT winner, COUNT(*) ... GROUP BY winner, for the drivers of driver_stats
WinCounts(ds, records) ==
    [ d \in DOMAIN ds |->
        LET wins == Cardinality({ k \in DOMAIN records : records[k].winner = d })
        IN IF wins > 0 THEN [ ds[d] EXCEPT !.win_count = wins ] ELSE ds[d] ]

RECURSIVE BestMargins(_, _, _)
\* step 5: for row in margin_rows, the first largest margin of each winner
BestMargins(ds, winners, rows) ==
    IF rows = << >> THEN ds
    ELSE LET row == rows[1]
             points_list == Split(row.points)
             margin == Int_(points_list[1]) - Int_(points_list[2])
             better == /\ row.winner \in winners
                       /\ row.points # << >>
                       /\ Len(points_list) >= 2
                       /\ \/ ds[row.winner].best_margin = NULL
                          \/ margin > ds[row.winner].best_margin[1]
         IN BestMargins(IF better
                        THEN [ ds EXCEPT ![row.winner].best_margin = << margin >>,
                                         ![row.winner].best_margin_championship_id
                                             = << row.championship_id >> ]
                        ELSE ds,
                        winners, Tail(rows))

\* the rows inserted into driver_statistics; computed_at is the column's
\* DEFAULT CURRENT_TIMESTAMP
DriverStatisticsRows(ds, s, t) ==
    { [ driver_code |-> d,
        season |-> s,
        highest_position |-> ds[d].highest_position,
        highest_position_max_races |-> ds[d].highest_position_max_races,
        highest_position_championship_id |-> ds[d].highest_position_championship_id,
        best_margin |-> ds[d].best_margin,
        best_margin_championship_id |-> ds[d].best_margin_championship_id,
        win_count |-> ds[d].win_count,
        computed_at |-> t ] : d \in DOMAIN ds }

\* SELECT winner, num_races, COUNT(*) ... GROUP BY winner, num_races, with the
\* total of its length
WinsPerLength(records, s) ==
    { [ driver_code |-> group[1],
        num_races |-> group[2],
        win_count |-> Cardinality({ j \in DOMAIN records :
                                      /\ records[j].winner = group[1]
                                      /\ records[j].num_races = group[2] }),
        total_at_length |-> Cardinality({ j \in DOMAIN records :
                                            records[j].num_races = group[2] }),
        season |-> s ] :
      group \in { << records[k].winner, records[k].num_races >> : k \in DOMAIN records } }

\* a cache that holds the winners' rows only
CacheOfWinnersOnly(records, s, all_drivers) == WinsPerLength(records, s)

\* cache_data: the winners' rows, and a zero row for every other pair of a
\* driver of all_drivers and a length of totals_dict
WinProbabilityRows(records, s, all_drivers) ==
    LET won == WinsPerLength(records, s)
        existing_combinations == { << r.driver_code, r.num_races >> : r \in won }
        lengths == { records[k].num_races : k \in DOMAIN records }
    IN won \cup
       { [ driver_code |-> pair[1],
           num_races |-> pair[2],
           win_count |-> 0,
           total_at_length |-> Cardinality({ j \in DOMAIN records :
                                               records[j].num_races = pair[2] }),
           season |-> s ] :
         pair \in { p \in Range(all_drivers) \X lengths : p \notin existing_combinations } }

\* rows added to what the table holds, nothing deleted first
MergedIntoSeason(table, s, rows) == table \cup rows

\* DELETE FROM <table> WHERE season = ? and then the INSERTs
ReplaceSeason(table, s, rows) == { r \in table : r.season # s } \cup rows

\* a skip that empties both tables
SkippedAndEmptied(tables) ==
    [ driver_statistics |-> {}, win_probability_cache |-> {} ]

\* `if not sample_row: ... return`: nothing is written
Skipped(tables) == tables

\* compute_stats_for_season(db, season) at time t; tables holds
\* driver_statistics and win_probability_cache
ComputeStatsForSeason(tables, records_table, s, t) ==
    LET records == SeasonRecords(records_table, s) IN
    IF records = << >> THEN Skipped(tables)
    ELSE LET all_drivers == DriversList(records[1].standings)
             max_races == SetMax({ records[k].num_races : k \in DOMAIN records })
             scanned == HighestPositions(records_table, s, all_drivers, max_races)
             counted == WinCounts(scanned, records)
             winners == { d \in DOMAIN counted : counted[d].highest_position = 1 }
             driver_stats == BestMargins(counted, winners, records)
         IN [ driver_statistics |->
                ReplaceSeason(tables.driver_statistics, s,
                              DriverStatisticsRows(driver_stats, s, t)),
              win_probability_cache |->
                ReplaceSeason(tables.win_probability_cache, s,
                              WinProbabilityRows(records, s, all_drivers)) ]

RECURSIVE ComputeSeasons(_, _, _, _)
\* for s in seasons: compute_stats_for_season(db, s)
ComputeSeasons(tables, records_table, seasons, t) ==
    IF seasons = << >> THEN tables
    ELSE ComputeSeasons(ComputeStatsForSeason(tables, records_table, seasons[1], t),
                        records_table, Tail(seasons), t)

\* flask compute-stats [--season S], run at time t: the season of the option,
\* or without it every season that has records ("No championship data found"
\* when there is none)
ComputeStatsCommand ==
    /\ pc = "idle"
    /\ \E seasons \in { SeasonsWithData(championship_results),
                         << DefaultSeason >>, << OtherSeason >> } :
       \E t \in { now, now + 1 } :
          LET computed == { s \in Range(seasons) : SeasonRows(championship_results, s) # {} }
              before == [ driver_statistics |-> driver_statistics,
                          win_probability_cache |-> win_probability_cache ]
              after == ComputeSeasons(before, championship_results, seasons, t)
          IN /\ t <= MaxClock
             /\ now' = t
             /\ driver_statistics' = after.driver_statistics
             /\ win_probability_cache' = after.win_probability_cache
             /\ last_compute' =
                   [ outcome |-> IF computed = {} THEN "no_data" ELSE "computed",
                     computed |-> computed,
                     records |-> RecordIds(championship_results) ]
    /\ UNCHANGED << beside_vars, processed_count, drivers, scores, num_races, tie_order, csv_exists,
                    championship_results, position_results, sqlite_sequence,
                    synchronous, in_transaction,
                    tx_championship_results, tx_position_results, tx_sqlite_sequence,
                    run_vars, runs, at_start, issued, issued_ever, runs_since_clear,
                    first_run, last_run, yielded, race_subset, standing >>

\* flask process-data as one step: a whole run of process_data at the default
\* batch_size of 100000, which no table of this specification fills, so that
\* the only flush is the one after the loop.  The snapshots at_start and
\* first_run belong to the stepwise run and are not taken here.
ProcessDataRun ==
    /\ pc = "idle"
    /\ csv_exists
    /\ drivers # << >>
    /\ runs < MaxStatRuns
    /\ LET subsets == Drain(num_races, GenStart(num_races))
           standings_all == [ k \in DOMAIN subsets |->
                                CalculateStandings(drivers, scores, subsets[k], tie_order) ]
           batch == [ k \in DOMAIN subsets |->
                        ChampionshipTuple(subsets[k], standings_all[k]) ]
           first_id == MaxChampionshipId(tx_championship_results) + 1
           saved == SaveToDatabase(tx_championship_results, tx_sqlite_sequence, batch)
           positions == SavePositionResults(tx_position_results,
                                            PositionData(standings_all, first_id, 0))
           ids == NewIds(championship_results, saved.table)
           since == IF championship_results = << >> /\ position_results = << >>
                    THEN 1 ELSE runs_since_clear + 1
       IN /\ tx_championship_results' = saved.table
          /\ tx_sqlite_sequence' = saved.seq
          /\ tx_position_results' = positions
          /\ championship_results' = saved.table
          /\ position_results' = positions
          /\ sqlite_sequence' = saved.seq
          /\ max_id' = first_id - 1
          /\ next_championship_id' = first_id
          /\ i' = Len(subsets)
          /\ issued' = issued \o ids
          /\ issued_ever' = issued_ever \o ids
          /\ runs_since_clear' = since
    /\ runs' = runs + 1
    /\ run' = "process_data"
    /\ commits' = 1
    /\ last_run' = "completed"
    /\ UNCHANGED << beside_vars, processed_count, input_vars, synchronous, in_transaction,
                    driver_statistics, win_probability_cache, last_compute,
                    pc, season, batch_size, gen, championship_data_batch, standings_batch,
                    raised, at_start, first_run, yielded, race_subset, standing >>

StatsInit ==
    /\ drivers = Roster
    /\ tie_order \in Perms(Len(Roster))
    /\ \E N \in 0..MaxStatRaces : num_races = N /\ scores \in InputTables(Len(Roster), N)
    /\ csv_exists = TRUE /\ now = 0
    /\ StorageFresh /\ HistoryFresh /\ RunIdle /\ BesideIdle
    /\ yielded = << >>
    /\ race_subset = << >>
    /\ standing = [ sorted_drivers |-> << >>, sorted_scores |-> << >> ]

StatsNext ==
    \/ ProcessDataRun
    \/ ComputeStatsCommand
    \/ ClearSeasonData

StatsSpec == StatsInit /\ [][StatsNext]_vars

\* ================================== the position scan on any season table
\* the standings column of a record: the two drivers in either order
ScanStandingsColumns ==
    { Join(<< Roster[p[1]], Roster[p[2]] >>) : p \in Perms(2) }

\* a championship record of `n` races with the given standings; the scan
\* selects championship_id, standings and num_races
ScanRecord(id, n, standings) ==
    [ championship_id |-> id,
      season |-> DefaultSeason,
      num_races |-> n,
      rounds |-> Join([ k \in 1..n |-> Str(k) ]),
      standings |-> standings,
      winner |-> Split(standings)[1],
      points |-> Join(<< Str(n + 1), Str(n) >>) ]

\* the tables of up to MaxScanRows records of one season, ids in insertion order
ScanTables ==
    UNION { { [ k \in 1..len |-> ScanRecord(k, choice[k][1], choice[k][2]) ] :
                choice \in [1..len -> (1..MaxScanLen) \X ScanStandingsColumns] } :
            len \in 0..MaxScanRows }

ScanInit ==
    /\ drivers = << >> /\ scores = << >> /\ num_races = 0 /\ tie_order = << >>
    /\ csv_exists = TRUE /\ now = 0
    /\ championship_results \in ScanTables
    /\ tx_championship_results = championship_results
    /\ sqlite_sequence = Len(championship_results)
    /\ tx_sqlite_sequence = sqlite_sequence
    /\ position_results = << >> /\ tx_position_results = << >>
    /\ synchronous = "NORMAL" /\ in_transaction = FALSE
    /\ driver_statistics = {} /\ win_probability_cache = {}
    /\ HistoryFresh /\ RunIdle /\ BesideIdle
    /\ yielded = << >>
    /\ race_subset = << >>
    /\ standing = [ sorted_drivers |-> << >>, sorted_scores |-> << >> ]

ScanNext == ComputeStatsCommand

ScanSpec == ScanInit /\ [][ScanNext]_vars

\* ============================ two runs at once, each on its own connection
\* two flask commands started at the same time against the same database file
Processes == { 1, 2 }

\* a BEGIN that takes no write lock (deferred): it never has to wait
WriteLockIgnored(holder) == TRUE

\* BEGIN IMMEDIATE goes through when no other connection holds the write lock
WriteLockFree(holder) == holder = 0

\* the run of one process before its BEGIN IMMEDIATE
ProcStart(kind, bs) ==
    [ run |-> kind,
      pc |-> "start",
      batch_size |-> bs,
      max_id |-> 0,
      next_championship_id |-> 1,
      i |-> 0,
      championship_data_batch |-> << >>,
      standings_batch |-> << >>,
      tx_championship_results |-> << >>,
      tx_position_results |-> << >>,
      tx_sqlite_sequence |-> 0,
      ids |-> << >>,
      raised |-> "none" ]

\* the pragmas, BEGIN IMMEDIATE and the read of the largest championship_id,
\* on the connection of process p
ConcBegin(p) ==
    /\ procs[p].pc = "start"
    /\ WriteLockFree(writer)
    /\ writer' = p
    /\ procs' = [ procs EXCEPT
                    ![p].pc = "loop",
                    ![p].max_id = MaxChampionshipId(championship_results),
                    ![p].next_championship_id = MaxChampionshipId(championship_results) + 1,
                    ![p].tx_championship_results = championship_results,
                    ![p].tx_position_results = position_results,
                    ![p].tx_sqlite_sequence = sqlite_sequence ]
    /\ UNCHANGED << input_vars, storage_vars, run_vars, history_vars, processed_count,
                    season_csv, add_race, yielded, race_subset, standing >>

\* BEGIN IMMEDIATE while the other connection holds the write lock: the busy
\* timeout of the connection runs out and execute raises
\* sqlite3.OperationalError (database is locked); nothing was read or written
ConcLocked(p) ==
    /\ procs[p].pc = "start"
    /\ ~WriteLockFree(writer)
    /\ procs' = [ procs EXCEPT ![p].pc = "failed", ![p].raised = "sqlite3.Error" ]
    /\ UNCHANGED << input_vars, storage_vars, run_vars, history_vars, processed_count,
                    season_csv, add_race, writer, yielded, race_subset, standing >>

\* one pass of the loop body of process p, with the flush of a full batch
ConcSubset(p) ==
    LET me == procs[p]
        subsets == Drain(num_races, GenStart(num_races))
    IN
    /\ me.pc = "loop"
    /\ me.i < Len(subsets)
    /\ LET st == CalculateStandings(drivers, scores, subsets[me.i + 1], tie_order)
           cb == Append(me.championship_data_batch, ChampionshipTuple(subsets[me.i + 1], st))
           sb == Append(me.standings_batch, st)
           flush == (me.i + 1) % me.batch_size = 0
           saved == SaveToDatabase(me.tx_championship_results, me.tx_sqlite_sequence, cb)
           positions == SavePositionResults(me.tx_position_results,
                                            PositionData(sb, me.next_championship_id, 0))
       IN /\ flush => me.run # "process_season_data"
          /\ procs' = [ procs EXCEPT ![p] =
                IF flush
                THEN [ me EXCEPT !.i = me.i + 1,
                                 !.tx_championship_results = saved.table,
                                 !.tx_sqlite_sequence = saved.seq,
                                 !.tx_position_results = positions,
                                 !.ids = me.ids \o NewIds(me.tx_championship_results,
                                                          saved.table),
                                 !.next_championship_id
                                     = NextBatchStart(me.next_championship_id, cb),
                                 !.championship_data_batch = << >>,
                                 !.standings_batch = << >> ]
                ELSE [ me EXCEPT !.i = me.i + 1,
                                 !.championship_data_batch = cb,
                                 !.standings_batch = sb ] ]
    /\ UNCHANGED << input_vars, storage_vars, run_vars, history_vars, processed_count,
                    season_csv, add_race, writer, yielded, race_subset, standing >>

\* a flush of process_season_data: TypeError (see FlushRaises); the command
\* ends, its connection is closed and its transaction rolled back, which gives
\* the write lock up
ConcRaise(p) ==
    LET me == procs[p]
        subsets == Drain(num_races, GenStart(num_races))
    IN
    /\ me.pc = "loop"
    /\ me.run = "process_season_data"
    /\ \/ me.i < Len(subsets) /\ (me.i + 1) % me.batch_size = 0
       \/ me.i = Len(subsets) /\ me.championship_data_batch # << >>
    /\ procs' = [ procs EXCEPT ![p].pc = "failed", ![p].raised = "TypeError" ]
    /\ writer' = 0
    /\ UNCHANGED << input_vars, storage_vars, run_vars, history_vars, processed_count,
                    season_csv, add_race, yielded, race_subset, standing >>

\* the end of the run of process p: the remaining batch is flushed and
\* db.commit() makes the rows visible and gives the write lock up
ConcFinish(p) ==
    LET me == procs[p]
        subsets == Drain(num_races, GenStart(num_races))
    IN
    /\ me.pc = "loop"
    /\ me.i = Len(subsets)
    /\ me.championship_data_batch # << >> => me.run # "process_season_data"
    /\ LET saved == SaveToDatabase(me.tx_championship_results, me.tx_sqlite_sequence,
                                   me.championship_data_batch)
           positions == SavePositionResults(me.tx_position_results,
                            PositionData(me.standings_batch, me.next_championship_id, 0))
       IN /\ championship_results' = saved.table
          /\ position_results' = positions
          /\ sqlite_sequence' = saved.seq
          /\ procs' = [ procs EXCEPT
                          ![p].pc = "done",
                          ![p].tx_championship_results = saved.table,
                          ![p].tx_sqlite_sequence = saved.seq,
                          ![p].tx_position_results = positions,
                          ![p].ids = me.ids \o NewIds(me.tx_championship_results, saved.table),
                          ![p].championship_data_batch = << >>,
                          ![p].standings_batch = << >> ]
    /\ writer' = 0
    /\ UNCHANGED << input_vars, run_vars, history_vars, processed_count,
                    synchronous, in_transaction,
                    tx_championship_results, tx_position_results, tx_sqlite_sequence,
                    driver_statistics, win_probability_cache,
                    season_csv, add_race, yielded, race_subset, standing >>

ConcInit ==
    /\ drivers = Roster
    /\ tie_order \in Perms(Len(Roster))
    /\ \E N \in 0..MaxConcRaces : num_races = N /\ scores \in InputTables(Len(Roster), N)
    /\ csv_exists = TRUE /\ now = 0
    /\ StorageFresh /\ HistoryFresh /\ RunIdle
    /\ processed_count = 0
    /\ season_csv = NoSeasonFiles
    /\ add_race = NoAddRace
    /\ writer = 0
    /\ procs \in [Processes -> { ProcStart(kind, bs) :
                                   kind \in { "process_data", "process_season_data" },
                                   bs \in 1..MaxBatch }]
    /\ yielded = << >>
    /\ race_subset = << >>
    /\ standing = [ sorted_drivers |-> << >>, sorted_scores |-> << >> ]

ConcNext ==
    \E p \in Processes :
       \/ ConcBegin(p)
       \/ ConcLocked(p)
       \/ ConcSubset(p)
       \/ ConcRaise(p)
       \/ ConcFinish(p)

ConcSpec == ConcInit /\ [][ConcNext]_vars

\* ===================================== the commands and the source file
\* whole commands, with data/championships.csv there or taken away
FileInit == StatsInit

FileNext ==
    \/ ProcessDataRun
    \/ ProcessDataNoCsv
    \/ ProcessSeasonDataNoCsv
    \/ RemoveCsv
    \/ ClearSeasonData
    \/ InitDbClear

FileSpec == FileInit /\ [][FileNext]_vars

\* ================================================= flask add-race
\* ------------------------------------------------ text, as Python sees it
LowerChars == << "a", "b", "c", "d", "e", "f", "g", "h", "i", "j", "k", "l", "m", "n", "o", "p", "q", "r", "s", "t", "u", "v", "w", "x", "y", "z" >>

UpperChars == << "A", "B", "C", "D", "E", "F", "G", "H", "I", "J", "K", "L", "M", "N", "O", "P", "Q", "R", "S", "T", "U", "V", "W", "X", "Y", "Z" >>

\* str.upper()
Upper(s) ==
    [ k \in DOMAIN s |->
        IF \E j \in DOMAIN LowerChars : LowerChars[j] = s[k]
        THEN UpperChars[CHOOSE j \in DOMAIN LowerChars : LowerChars[j] = s[k]]
        ELSE s[k] ]

RECURSIVE SplitOn(_, _)
\* s.split(sep) for a one-character separator
SplitOn(s, sep) ==
    LET at == { k \in DOMAIN s : s[k] = sep } IN
    IF at = {} THEN << s >>
    ELSE LET k == CHOOSE c \in at : \A c2 \in at : c <= c2
         IN << SubSeq(s, 1, k - 1) >> \o SplitOn(SubSeq(s, k + 1, Len(s)), sep)

IsDigits(s) == s # << >> /\ \A k \in DOMAIN s : s[k] \in Range(DigitChars)

\* int(s) does not raise ValueError: blanks around an optional sign and digits
IsInt(s) ==
    LET t == Strip(s) IN
    /\ t # << >>
    /\ IF t[1] \in { "-", "+" } THEN IsDigits(Tail(t)) ELSE IsDigits(t)

\* int(s) where it does not raise
IntOf(s) ==
    LET t == Strip(s) IN IF t[1] = "+" THEN IntNat(Tail(t)) ELSE Int_(t)

\* a driver code of any length
IsAnyCode(driver) == \A k \in DOMAIN driver : driver[k] \in Range(UpperChars)

\* re.match(r'^[A-Z]{3}$', driver), for a driver that went through strip()
IsDriverCode(driver) ==
    /\ Len(driver) = 3
    /\ \A k \in DOMAIN driver : driver[k] \in Range(UpperChars)

\* a Python dict as the sequence of its (key, value) items in insertion order
DictKeys(items) == { items[k][1] : k \in DOMAIN items }

\* d[key] = value
DictSet(items, key, value) ==
    IF key \in DictKeys(items)
    THEN [ k \in DOMAIN items |-> IF items[k][1] = key THEN << key, value >> ELSE items[k] ]
    ELSE Append(items, << key, value >>)

RECURSIVE ParsePairs(_, _)
\* the loop of parse_race_results over results_str.split(',')
ParsePairs(pairs, results) ==
    IF pairs = << >> THEN [ error |-> "none", results |-> results ]
    ELSE LET pair == Strip(pairs[1])
             parts == SplitOn(pair, ":")
             driver == Upper(Strip(parts[1]))
         IN IF pair = << >> THEN ParsePairs(Tail(pairs), results)
            ELSE IF Len(parts) # 2
            THEN [ error |-> "Invalid format", results |-> << >> ]
            ELSE IF ~IsInt(parts[2])
            THEN [ error |-> "Invalid points value", results |-> << >> ]
            ELSE IF ~IsDriverCode(driver)
            THEN [ error |-> "Invalid driver code", results |-> << >> ]
            ELSE ParsePairs(Tail(pairs), DictSet(results, driver, IntOf(parts[2])))

\* parse_race_results(results_str): the dict, or the ValueError it raises
ParseRaceResults(results_str) == ParsePairs(Split(results_str), << >>)

\* ------------------------------------------------------- the season file
\* race_data.get(driver, {}).get(round_num, 0); race_data maps a driver to
\* the function from its rounds to its points
PointsOf(race_data, driver, round_num) ==
    IF driver \in DOMAIN race_data /\ round_num \in DOMAIN race_data[driver]
    THEN race_data[driver][round_num]
    ELSE 0

\* a header that numbers the rounds from 0
HeaderFromZero(max_round) ==
    << << "D", "r", "i", "v", "e", "r" >> >> \o [ r \in 1..max_round |-> Str(r - 1) ]

\* header = ['Driver'] + [str(r) for r in range(1, max_round + 1)]
Header(max_round) ==
    << << "D", "r", "i", "v", "e", "r" >> >> \o [ r \in 1..max_round |-> Str(r) ]

\* save_season_csv(season, drivers, race_data, max_round): the file as the
\* rows csv.writer is given, each a list of text fields
SaveSeasonCsv(drivers_list, race_data, max_round) ==
    [ exists |-> TRUE,
      rows |-> << Header(max_round) >> \o
               [ k \in DOMAIN drivers_list |->
                   << drivers_list[k] >> \o
                   [ r \in 1..max_round |-> Str(PointsOf(race_data, drivers_list[k], r)) ] ] ]

\* load_season_csv(season): (drivers, race_data) from the rows csv.reader
\* yields, or ([], {}) without a file
LoadSeasonCsv(file) ==
    IF ~file.exists THEN [ drivers |-> << >>, race_data |-> << >> ]
    ELSE LET header == file.rows[1]
             rounds == [ k \in 1..(Len(header) - 1) |-> IntOf(header[k + 1]) ]
             body == Tail(file.rows)
             loaded == [ k \in DOMAIN body |-> Upper(Strip(body[k][1])) ]
             \* the last row of a driver is the one race_data keeps
             RowOf(d) == body[SetMax({ k \in DOMAIN body : loaded[k] = d })]
             Cell(d, r) == RowOf(d)[SetMax({ k \in DOMAIN rounds : rounds[k] = r }) + 1]
         IN [ drivers |-> loaded,
              race_data |->
                 [ d \in Range(loaded) |->
                     [ r \in { rounds[k] : k \in { j \in DOMAIN rounds :
                                                     /\ j + 1 <= Len(RowOf(d))
                                                     /\ RowOf(d)[j + 1] # << >> } } |->
                         IF IsInt(Cell(d, r)) THEN IntOf(Cell(d, r)) ELSE 0 ] ] ]

\* ---------------------------------------------------------- the command
\* config_drivers = list(season_data.drivers.keys()), or NULL where
\* get_season_data raises FileNotFoundError
ConfigDrivers(s) == IF s = UnconfiguredSeason THEN NULL ELSE << Roster >>

RECURSIVE ApplyResults(_, _, _)
\* for driver, points in race_results.items(): a driver not in race_data is
\* appended to drivers
ApplyResults(data, items, race_num) ==
    IF items = << >> THEN data
    ELSE LET driver == items[1][1]
             points == items[1][2]
         IN ApplyResults(
              IF driver \in DOMAIN data.race_data
              THEN [ data EXCEPT !.race_data[driver] = (race_num :> points) @@ @ ]
              ELSE [ drivers |-> Append(data.drivers, driver),
                     race_data |-> data.race_data @@ (driver :> (race_num :> points)) ],
              Tail(items), race_num)

\* the arguments add-race gives to save_season_csv
UpdatedSeason(loaded, config_drivers, race_results, race_num) ==
    LET start == IF loaded.drivers = << >>
                 THEN [ drivers |-> config_drivers,
                        race_data |-> [ d \in Range(config_drivers) |-> << >> ] ]
                 ELSE loaded
        updated == ApplyResults(start, race_results, race_num)
        filled == [ d \in DOMAIN updated.race_data \cup Range(updated.drivers) |->
                      LET mine == IF d \in DOMAIN updated.race_data
                                  THEN updated.race_data[d] ELSE << >>
                      IN IF d \in Range(updated.drivers) /\ race_num \notin DOMAIN mine
                         THEN mine @@ (race_num :> 0)
                         ELSE mine ]
    IN [ drivers |-> updated.drivers,
         race_data |-> filled,
         max_round |-> SetMax({ SetMax(DOMAIN filled[d] \cup { 0 }) :
                                d \in Range(updated.drivers) }) ]

\* the --results strings tried
ResultStrings ==
    { << "V", "E", "R", ":", "2", "5", ",", "N", "O", "R", ":", "1", "8" >>,
      << " ", "v", "e", "r", " ", ":", " ", "-", "5", " ", ",", "H", "A", "M", ":", "1", "0", "," >>,
      << "V", "E", "R", "2", "5" >>,
      << "V", "E", "R", ":", "2", "5", ":", "1" >>,
      << "V", "E", "R", ":", "a", "b", "c" >>,
      << "A", "B", ":", "2", "5" >>,
      << >> }

\* the --race numbers tried: the valid ones up to MaxRound, and the two just
\* outside 1..24
RaceNumbers == { 0 } \cup (1..MaxRound) \cup { MaxRaceNumber + 1 }

\* what add-race finds wrong with its arguments, in the order it looks
AddRaceError(s, race_num, results) ==
    IF race_num < 1 \/ race_num > MaxRaceNumber THEN "Invalid race number"
    ELSE IF ParseRaceResults(results).error # "none" THEN ParseRaceResults(results).error
    ELSE IF ParseRaceResults(results).results = << >> THEN "No valid race results provided"
    ELSE IF ConfigDrivers(s) = NULL THEN "Season config not found"
    ELSE "none"

\* flask add-race --season s --race n --results text [--skip-reprocess]
AddRaceInvoke ==
    /\ pc = "idle"
    /\ add_race.pc \in { "idle", "done", "failed" }
    /\ add_race.calls < MaxAddRaces
    /\ \E s \in AddRaceSeasons, n \in RaceNumbers, text \in ResultStrings, skip \in BOOLEAN :
          add_race' = [ pc |-> "invoked", calls |-> add_race.calls + 1, season |-> s,
                        race_num |-> n, results |-> text, skip_reprocess |-> skip,
                        outcome |-> "none", saved |-> NoSave, raised |-> "none" ]
    /\ UNCHANGED << input_vars, storage_vars, run_vars, history_vars, processed_count,
                    season_csv, writer, procs, yielded, race_subset, standing >>

\* add-race on arguments it rejects: "[ERROR] ..." and return
AddRaceRejected ==
    /\ add_race.pc = "invoked"
    /\ AddRaceError(add_race.season, add_race.race_num, add_race.results) # "none"
    /\ add_race' = [ add_race EXCEPT
                       !.pc = "done",
                       !.outcome = AddRaceError(add_race.season, add_race.race_num,
                                                add_race.results) ]
    /\ UNCHANGED << input_vars, storage_vars, run_vars, history_vars, processed_count,
                    season_csv, writer, procs, yielded, race_subset, standing >>

\* add-race up to `Saved to:`; with --skip-reprocess that is the end
AddRaceSave ==
    /\ add_race.pc = "invoked"
    /\ AddRaceError(add_race.season, add_race.race_num, add_race.results) = "none"
    /\ LET s == add_race.season
           to_save == UpdatedSeason(LoadSeasonCsv(season_csv[s]), ConfigDrivers(s)[1],
                                    ParseRaceResults(add_race.results).results,
                                    add_race.race_num)
       IN /\ season_csv' = [ season_csv EXCEPT ![s] =
                               SaveSeasonCsv(to_save.drivers, to_save.race_data,
                                             to_save.max_round) ]
          /\ add_race' = [ add_race EXCEPT
                             !.pc = IF add_race.skip_reprocess THEN "done" ELSE "saved",
                             !.outcome = "saved",
                             !.saved = to_save ]
    /\ UNCHANGED << input_vars, storage_vars, run_vars, history_vars, processed_count,
                    writer, procs, yielded, race_subset, standing >>

\* clear_season_data(season) inside add-race
AddRaceClear ==
    /\ add_race.pc = "saved"
    /\ ClearSeasonDataDb(add_race.season)
    /\ add_race' = [ add_race EXCEPT !.pc = "cleared" ]
    /\ UNCHANGED << season_csv, writer, procs >>

\* the race columns read_csv finds in the season file
SeasonFileRaces(file) == Len(file.rows[1]) - 1

\* process_season_data(season, csv_path) inside add-race, at the default
\* batch_size: a file with a race column has a subset, so the run comes to a
\* flush, in the loop or after it, and the flush raises TypeError (see
\* FlushRaises) after the pragmas and BEGIN IMMEDIATE.  Nothing in add-race
\* catches it: the command ends there, its transaction is rolled back when the
\* connection is given back, and compute_season_stats is not reached.
AddRaceReprocess ==
    /\ add_race.pc = "cleared"
    /\ Pow2(SeasonFileRaces(season_csv[add_race.season])) - 1 >= 1
    /\ synchronous' = "OFF"
    /\ add_race' = [ add_race EXCEPT !.pc = "failed", !.raised = "TypeError" ]
    /\ UNCHANGED << input_vars, championship_results, position_results, sqlite_sequence,
                    in_transaction, tx_championship_results, tx_position_results,
                    tx_sqlite_sequence, driver_statistics, win_probability_cache,
                    run_vars, history_vars, processed_count,
                    season_csv, writer, procs, yielded, race_subset, standing >>

\* the database after flask process-data on Scenario A's table and flask
\* compute-stats; no season file yet
AddRaceInit ==
    /\ drivers = Roster
    /\ tie_order = << 1, 2, 3 >>
    /\ num_races = 2
    /\ scores = << << 25, 18 >>, << 18, 25 >>, << 15, 15 >> >>
    /\ csv_exists = TRUE /\ now = 0
    /\ LET subsets == Drain(num_races, GenStart(num_races))
           standings_all == [ k \in DOMAIN subsets |->
                                CalculateStandings(drivers, scores, subsets[k], tie_order) ]
           batch == [ k \in DOMAIN subsets |->
                        ChampionshipTuple(subsets[k], standings_all[k]) ]
           saved == SaveToDatabase(<< >>, 0, batch)
           positions == SavePositionResults(<< >>, PositionData(standings_all, 1, 0))
           stats == ComputeStatsForSeason([ driver_statistics |-> {},
                                            win_probability_cache |-> {} ],
                                          saved.table, DefaultSeason, 0)
       IN /\ championship_results = saved.table
          /\ tx_championship_results = saved.table
          /\ sqlite_sequence = saved.seq
          /\ tx_sqlite_sequence = saved.seq
          /\ position_results = positions
          /\ tx_position_results = positions
          /\ driver_statistics = stats.driver_statistics
          /\ win_probability_cache = stats.win_probability_cache
          /\ issued = NewIds(<< >>, saved.table)
          /\ issued_ever = NewIds(<< >>, saved.table)
          /\ last_compute = [ outcome |-> "computed", computed |-> { DefaultSeason },
                              records |-> RecordIds(saved.table) ]
    /\ synchronous = "NORMAL" /\ in_transaction = FALSE
    /\ runs = 1
    /\ at_start = [ championship_results |-> << >>, position_results |-> << >> ]
    /\ runs_since_clear = 1
    /\ first_run = [ taken |-> FALSE, championship_results |-> << >>,
                     position_results |-> << >> ]
    /\ last_run = "completed"
    /\ RunIdle /\ BesideIdle
    /\ yielded = << >>
    /\ race_subset = << >>
    /\ standing = [ sorted_drivers |-> << >>, sorted_scores |-> << >> ]

AddRaceNext ==
    \/ AddRaceInvoke
    \/ AddRaceRejected
    \/ AddRaceSave
    \/ AddRaceClear
    \/ AddRaceReprocess

AddRaceSpec == AddRaceInit /\ [][AddRaceNext]_vars

\* ================================================================ claims
\* the index set of a yielded tuple
IndexSet(t) == Range(t)

StrictlyAscending(t) == \A a, b \in DOMAIN t : a < b => t[a] < t[b]

\* t comes before u in lexicographic order (same length)
LexLess(t, u) ==
    \E k \in DOMAIN t : /\ t[k] < u[k]
                        /\ \A j \in 1..(k - 1) : t[j] = u[j]

\* C5: for N races the enumerator yields exactly 2^N - 1 subsets, none twice,
\* and together they are the powerset of {0..N-1} without the empty set
\* (nothing for N = 0).
C5_EveryNonEmptySubsetOnce ==
    /\ \A a, b \in DOMAIN yielded :
          a # b => IndexSet(yielded[a]) # IndexSet(yielded[b])
    /\ \A a \in DOMAIN yielded :
          /\ Cardinality(IndexSet(yielded[a])) = Len(yielded[a])
          /\ IndexSet(yielded[a]) \in (SUBSET (0..(num_races - 1))) \ { {} }
    /\ gen.done =>
          /\ Len(yielded) = Pow2(num_races) - 1
          /\ { IndexSet(yielded[a]) : a \in DOMAIN yielded }
                = (SUBSET (0..(num_races - 1))) \ { {} }

\* the enumerator has run to its end on at least three races
C5_Witness == gen.done /\ num_races >= 3 /\ Len(yielded) >= 7

\* C6: subsets come in non-decreasing size, within one size in lexicographic
\* order of their ascending index tuples (which fixes the order for each N).
C6_SizeThenLexOrder ==
    /\ \A a \in DOMAIN yielded : StrictlyAscending(yielded[a])
    /\ \A a \in 1..(Len(yielded) - 1) :
          \/ Len(yielded[a]) < Len(yielded[a + 1])
          \/ /\ Len(yielded[a]) = Len(yielded[a + 1])
             /\ LexLess(yielded[a], yielded[a + 1])

\* the enumerator has finished a run that held several subsets of one size
\* and went from one size to the next
C6_Witness ==
    /\ gen.done
    /\ \E a \in 1..(Len(yielded) - 1) :
          Len(yielded[a]) = 2 /\ Len(yielded[a + 1]) = 2
    /\ \E a \in 1..(Len(yielded) - 1) :
          Len(yielded[a]) = 2 /\ Len(yielded[a + 1]) = 3

\* the row of a driver code in the input table
RowOf(code) == CHOOSE d \in DOMAIN drivers : drivers[d] = code

\* C7: calculate_standings returns a permutation of all drivers with their
\* totals; each total is the driver's sum over exactly the subset's columns,
\* totals are non-increasing, and the k-th driver owns the k-th total.
C7_StandingsAreSortedTotals ==
    race_subset # << >> =>
        LET sd == standing.sorted_drivers
            ss == standing.sorted_scores
        IN /\ Len(sd) = Len(drivers) /\ Len(ss) = Len(drivers)
           /\ \A d \in DOMAIN drivers : \E k \in DOMAIN sd : sd[k] = drivers[d]
           /\ \A k \in DOMAIN sd :
                 /\ sd[k] \in Range(drivers)
                 /\ ss[k] = SumOver([ c \in IndexSet(race_subset) |-> scores[RowOf(sd[k])][c + 1] ],
                                    IndexSet(race_subset))
           /\ \A k \in 1..(Len(ss) - 1) : ss[k] >= ss[k + 1]

\* a standings over two of three drivers' races that reorders the drivers
C7_Witness ==
    /\ race_subset # << >>
    /\ Len(race_subset) < num_races
    /\ Len(drivers) = 3
    /\ standing.sorted_drivers # drivers
    /\ standing.sorted_scores[1] > standing.sorted_scores[3]

\* C8: two drivers with equal totals appear in their input row order (the
\* order by the key (-score, original_index)).
C8_TiesKeepRowOrder ==
    race_subset # << >> =>
        \A a, b \in DOMAIN standing.sorted_drivers :
            (a < b /\ standing.sorted_scores[a] = standing.sorted_scores[b])
                => RowOf(standing.sorted_drivers[a]) < RowOf(standing.sorted_drivers[b])

ChampionshipIds(table) == { table[k].championship_id : k \in DOMAIN table }

\* the position rows that carry a championship id
PositionRowsOf(id) ==
    { k \in DOMAIN position_results : position_results[k].championship_id = id }

\* C1: every persisted championship record has exactly num_drivers position
\* records with its championship_id, with positions 1..num_drivers once each,
\* every driver once, and each one's points equal to the record's points list
\* at index position-1.
C1_PositionsMatchChampionship ==
    \A c \in DOMAIN championship_results :
        LET row == championship_results[c]
            P == PositionRowsOf(row.championship_id)
            points_list == Split(row.points)
        IN /\ Cardinality(P) = Len(drivers)
           /\ { position_results[k].position : k \in P } = 1..Len(drivers)
           /\ { position_results[k].driver_code : k \in P } = Range(drivers)
           /\ \A k \in P :
                 /\ position_results[k].position \in DOMAIN points_list
                 /\ position_results[k].points
                       = Int_(points_list[position_results[k].position])

\* the rounds column of a subset
RoundsOf(subset) == Join([ k \in DOMAIN subset |-> Str(subset[k] + 1) ])

\* C2: the k-th subset of a run is persisted with championship_id M + k, M
\* being the largest championship_id in storage when the run starts (0 if
\* there is none); ids within a run increase in write order.
C2_IdsContinueFromMax ==
    (pc \in { "loop", "aborted" } \/ last_run = "completed") =>
        LET base == Len(at_start.championship_results)
            table == IF pc = "idle" THEN championship_results ELSE tx_championship_results
            subsets == Drain(num_races, GenStart(num_races))
        IN \A k \in 1..(Len(table) - base) :
              /\ table[base + k].rounds = RoundsOf(subsets[k])
              /\ table[base + k].championship_id = max_id + k
              /\ k > 1 => table[base + k - 1].championship_id
                             < table[base + k].championship_id

NoRepeat(log) == \A a, b \in DOMAIN log : a # b => log[a] # log[b]

\* C3 as stated: over process runs, clear_season_data, init_db with
\* clear_existing and re-runs, no championship_id is given to more than one
\* championship record.
C3_IdNeverReused == NoRepeat(issued_ever)

\* C3 as amended: within one database file, over process runs and
\* clear_season_data, no championship_id is given to more than one
\* championship record.
C3_IdNeverReusedInFile == NoRepeat(issued)

\* clear_season_data deleted committed records and a later run committed new ones
C3_Witness ==
    /\ championship_results # << >>
    /\ \E a \in DOMAIN issued : issued[a] \notin ChampionshipIds(championship_results)

\* C4: clearing prior output and re-running process on the same input
\* reproduces the championship and position tables of the first run, row for
\* row, championship_id values included.
C4_RerunReproducesTables ==
    (pc = "idle" /\ last_run = "completed" /\ runs_since_clear = 1 /\ first_run.taken) =>
        /\ championship_results = first_run.championship_results
        /\ position_results = first_run.position_results

\* C9: a run's flushes happen inside one transaction that is committed once,
\* after the last batch: a reader sees none of the run's records until then
\* and all of them afterwards, and a run that failed leaves none committed.
C9_OneTransactionPerRun ==
    LET total == Pow2(num_races) - 1
        base_c == at_start.championship_results
        base_p == at_start.position_results
    IN /\ pc \in { "loop", "aborted" } =>
             /\ in_transaction
             /\ commits = 0
             /\ championship_results = base_c
             /\ position_results = base_p
       /\ last_run = "failed" =>
             /\ commits = 0
             /\ championship_results = base_c
             /\ position_results = base_p
       /\ last_run = "completed" =>
             /\ commits = 1
             /\ Len(championship_results) = Len(base_c) + total
             /\ Len(position_results) = Len(base_p) + total * Len(drivers)
             /\ SubSeq(championship_results, 1, Len(base_c)) = base_c
             /\ SubSeq(position_results, 1, Len(base_p)) = base_p
       /\ ~in_transaction =>
             /\ tx_championship_results = championship_results
             /\ tx_position_results = position_results

\* a process_data run failed on a write after it had flushed a batch, and its
\* connection has been released
C9_Witness ==
    /\ pc = "idle"
    /\ last_run = "failed"
    /\ run = "process_data"
    /\ i >= batch_size

\* C10: whenever a run that set synchronous=OFF has ended, by completing or
\* by aborting on an error, the connection's synchronous mode is NORMAL again.
C10_SynchronousRestored == pc = "idle" => synchronous = "NORMAL"

\* ------------------------------------------------ the derived statistics

\* the season's statistics were computed from the records the table holds now
Fresh(s) ==
    /\ last_compute.outcome = "computed"
    /\ s \in last_compute.computed
    /\ last_compute.records = RecordIds(championship_results)

\* the season's championship records, as a set of rows
RecordsOf(s) == { championship_results[k] : k \in SeasonRows(championship_results, s) }

StatsRowsOfSeason(s) == { r \in driver_statistics : r.season = s }

\* the driver_statistics rows of a driver in a season
StatsRows(d, s) == { r \in driver_statistics : r.driver_code = d /\ r.season = s }

\* the position a record's standings give the driver
PositionIn(rec, d) ==
    LET st == Split(rec.standings) IN CHOOSE p \in DOMAIN st : st[p] = d

SetMin(S) == CHOOSE x \in S : \A y \in S : x <= y

\* the best position of the driver over all records of the season
BestPosition(d, s) == SetMin({ PositionIn(rec, d) : rec \in RecordsOf(s) })

\* C11: after compute_stats for a season, each driver's highest_position is the
\* minimum position the driver holds over all championship records of that
\* season, however many records a season length has.
C11_HighestPositionIsMinimum ==
    \A s \in Seasons : Fresh(s) =>
        \A d \in Range(drivers) :
            /\ StatsRows(d, s) # {}
            /\ \A r \in StatsRows(d, s) : r.highest_position = BestPosition(d, s)

\* C12: highest_position_max_races is the largest num_races among the records
\* in which the driver finishes at the best position, and
\* highest_position_championship_id is a record of exactly that length in
\* which the driver holds that position.
C12_LongestSeasonAtBestPosition ==
    \A s \in Seasons : Fresh(s) =>
        \A d \in Range(drivers) :
            /\ StatsRows(d, s) # {}
            /\ \A r \in StatsRows(d, s) :
                  LET at_best == { rec \in RecordsOf(s) :
                                     PositionIn(rec, d) = BestPosition(d, s) }
                  IN /\ r.highest_position_max_races
                          = SetMax({ rec.num_races : rec \in at_best })
                     /\ \E rec \in at_best :
                           /\ rec.championship_id = r.highest_position_championship_id
                           /\ rec.num_races = r.highest_position_max_races

\* the records of the season the driver wins
WonBy(d, s) == { rec \in RecordsOf(s) : rec.winner = d }

\* the table of Scenario A: VER = [25, 18], NOR = [18, 25], LEC = [15, 15]
ScenarioA == << << 25, 18 >>, << 18, 25 >>, << 15, 15 >> >>

MarginOf(rec) ==
    LET points == Split(rec.points) IN Int_(points[1]) - Int_(points[2])

\* C14: for every driver who wins at least one record of the season,
\* best_margin is the largest points[0] - points[1] over the records the
\* driver wins and best_margin_championship_id is a record that attains it;
\* a driver who wins no record has a null best_margin.
C14_BestMarginIsLargestOverWins ==
    \A s \in Seasons : Fresh(s) =>
        \A d \in Range(drivers) :
            /\ StatsRows(d, s) # {}
            /\ \A r \in StatsRows(d, s) :
                  IF WonBy(d, s) = {}
                  THEN r.best_margin = NULL
                  ELSE /\ r.best_margin
                            = << SetMax({ MarginOf(rec) : rec \in WonBy(d, s) }) >>
                       /\ \E rec \in WonBy(d, s) :
                             /\ << rec.championship_id >> = r.best_margin_championship_id
                             /\ << MarginOf(rec) >> = r.best_margin

\* the drivers that appear in the standings of the season's records
StandingDrivers(s) == UNION { Range(Split(rec.standings)) : rec \in RecordsOf(s) }

\* the season lengths the season's records have
LengthsOf(s) == { rec.num_races : rec \in RecordsOf(s) }

CacheRows(s) == { r \in win_probability_cache : r.season = s }

DerivedNow(s) ==
    ComputeStatsForSeason([ driver_statistics |-> {}, win_probability_cache |-> {} ],
                          championship_results, s, now)

\* the season's rows of both tables are the derived ones and no others
ExactlyDerived(s) ==
    /\ StatsRowsOfSeason(s) = DerivedNow(s).driver_statistics
    /\ CacheRows(s) = DerivedNow(s).win_probability_cache

\* a driver_statistics row without its computed_at
WithoutComputedAt(r) ==
    [ driver_code |-> r.driver_code, season |-> r.season,
      highest_position |-> r.highest_position,
      highest_position_max_races |-> r.highest_position_max_races,
      highest_position_championship_id |-> r.highest_position_championship_id,
      best_margin |-> r.best_margin,
      best_margin_championship_id |-> r.best_margin_championship_id,
      win_count |-> r.win_count ]

\* a step that computes a season's statistics again from unchanged records
ComputedAgain(s) ==
    /\ Fresh(s)
    /\ championship_results' = championship_results
    /\ last_compute'.outcome = "computed"
    /\ s \in last_compute'.computed

\* C16 as stated: compute_stats fully replaces a season's derived statistics:
\* after it the season's driver_statistics and win_probability_cache rows are
\* exactly the rows derived from the current championship records, no row of an
\* earlier computation survives, and a second run without data changes leaves
\* the contents of both tables unchanged.
C16_ReplacesAndRerunChangesNothing ==
    /\ [](\A s \in Seasons : Fresh(s) => ExactlyDerived(s))
    /\ [][\A s \in Seasons : ComputedAgain(s) =>
             /\ driver_statistics' = driver_statistics
             /\ win_probability_cache' = win_probability_cache]_vars

\* C16, amended: compute_stats fully replaces a season's derived statistics:
\* after it the season's rows of both tables are exactly the rows derived from
\* the current championship records, no row of an earlier computation
\* survives, and a second run without data changes leaves the contents of both
\* tables unchanged except for driver_statistics.computed_at, which takes the
\* time of the second run.
C16_ReplacesAndRerunKeepsAllButComputedAt ==
    /\ [](\A s \in Seasons : Fresh(s) => ExactlyDerived(s))
    /\ [][\A s \in Seasons : ComputedAgain(s) =>
             /\ { WithoutComputedAt(r) : r \in driver_statistics' }
                   = { WithoutComputedAt(r) : r \in driver_statistics }
             /\ \A r \in driver_statistics' : r.season = s => r.computed_at = now'
             /\ win_probability_cache' = win_probability_cache]_vars

\* statistics recomputed at a later second, over the records of two runs
C16_Witness ==
    /\ Fresh(DefaultSeason)
    /\ runs > 1
    /\ Cardinality(RecordsOf(DefaultSeason)) > 3
    /\ \E r \in driver_statistics : r.computed_at > 0

\* C17: when a season has no championship records, compute_stats reports that
\* there is no data and returns; driver_statistics and win_probability_cache
\* are left as they were.
C17_NoDataLeavesStatisticsAlone ==
    [][last_compute'.outcome = "no_data" =>
          /\ driver_statistics' = driver_statistics
          /\ win_probability_cache' = win_probability_cache]_vars

\* compute_stats found no data for its season while the tables hold the
\* statistics of another
C17_Witness ==
    /\ last_compute.outcome = "no_data"
    /\ driver_statistics # {}
    /\ win_probability_cache # {}

\* ------------------------------------------------------ the source file
\* C18: when the source CSV file is missing, process_data reports it and
\* returns before it opens a transaction, changes a durability pragma or
\* writes a row: the storage and the connection are left as they were.
C18_MissingCsvChangesNothing ==
    [][(~csv_exists /\ last_run' = "no_csv") =>
          /\ pc' = "idle"
          /\ UNCHANGED storage_vars]_vars

\* process_data has reported the missing file over a storage that holds the
\* records of an earlier run
C18_Witness ==
    /\ ~csv_exists
    /\ last_run = "no_csv"
    /\ championship_results # << >>
    /\ position_results # << >>

\* the source table has race columns and no data row
ZeroDataRows == csv_exists /\ drivers = << >> /\ num_races >= 1

\* C19: given a source table with race columns and zero data rows, the
\* process fails with an input error before any write is attempted: it does
\* not complete, and once it has failed no transaction is left open, the
\* durability settings are untouched and no row is written.
C19_ZeroRowsRejectedBeforeAnyWrite ==
    ZeroDataRows =>
        /\ last_run # "completed"
        /\ (pc = "aborted" \/ last_run = "failed") =>
              /\ raised = "InputError"
              /\ ~in_transaction
              /\ synchronous = "NORMAL"
              /\ tx_championship_results = << >> /\ tx_position_results = << >>
              /\ championship_results = << >> /\ position_results = << >>

\* ------------------------------------------------ the championship record
\* the subset whose record is the k-th row of the table: every completed run
\* appends one record per subset, in the order of the enumeration
SubsetOfRow(k) ==
    LET subsets == Drain(num_races, GenStart(num_races))
    IN subsets[((k - 1) % Len(subsets)) + 1]

\* C20: every championship record written for a subset S has num_races = |S|,
\* rounds the strictly ascending comma-joined 1-based indices of S, standings
\* and points with as many entries as there are drivers, and winner the first
\* entry of standings; decoding rounds, standings and points gives back S and
\* the computed standings and totals.
C20_RecordEncodesSubsetAndStandings ==
    \A k \in DOMAIN championship_results :
        LET row == championship_results[k]
            S == SubsetOfRow(k)
            st == CalculateStandings(drivers, scores, S, tie_order)
            decoded == FormatChampionshipData(row)
        IN /\ row.num_races = Len(S)
           /\ row.rounds = Join([ j \in DOMAIN S |-> Str(S[j] + 1) ])
           /\ StrictlyAscending(decoded.round_numbers)
           /\ Len(decoded.drivers) = Len(drivers)
           /\ Len(decoded.points) = Len(drivers)
           /\ row.winner = decoded.drivers[1]
           /\ [ j \in DOMAIN decoded.round_numbers |-> decoded.round_numbers[j] - 1 ] = S
           /\ decoded.drivers = st.sorted_drivers
           /\ decoded.points = st.sorted_scores

\* a committed record of a subset of two races, after more than one run
C20_Witness ==
    /\ \E k \in DOMAIN championship_results :
          /\ championship_results[k].num_races = 2
          /\ championship_results[k].championship_id > 3

\* ------------------------------------------------- position rows and records
\* C28: after any sequence of process runs and season clears, every
\* position_results row refers to an existing championship record whose
\* standings list that row's driver at that row's position.
C28_PositionRowsPointAtTheirRecord ==
    pc = "idle" =>
        \A k \in DOMAIN position_results :
            \E c \in DOMAIN championship_results :
                /\ championship_results[c].championship_id
                      = position_results[k].championship_id
                /\ LET st == Split(championship_results[c].standings) IN
                      /\ position_results[k].position \in DOMAIN st
                      /\ st[position_results[k].position] = position_results[k].driver_code

\* C29: in every driver_statistics row compute_stats writes over data with at
\* least two drivers, win_count > 0, highest_position = 1 and a non-null
\* best_margin are all true or all false.
C29_WinsFirstPlaceAndMarginAgree ==
    \A s \in Seasons : Fresh(s) /\ Len(drivers) >= 2 =>
        \A r \in StatsRowsOfSeason(s) :
            /\ (r.win_count > 0) <=> (r.highest_position = 1)
            /\ (r.highest_position = 1) <=> (r.best_margin # NULL)

\* ------------------------------------------------- the season run's count
\* C24: process_season_data returns the total number of combinations
\* processed, 2^N - 1 for a table of N race columns, for every batch_size >= 1
\* (batch sizes that divide the number of combinations included).
C24_ReturnsNumberOfCombinations ==
    /\ pc = "idle"
    /\ run = "process_season_data"
    /\ last_run \in { "completed", "failed" }
    /\ drivers # << >>
    => /\ last_run = "completed"
       /\ processed_count = Pow2(num_races) - 1

\* ------------------------------------------------------- clearing a season
\* the rows of a table (a sequence) that belong to the season, in order
RowsOfSeason(table, s) == SelectSeq(table, LAMBDA r : r.season = s)

SequenceAtStart(count) ==
    IF Len(issued) - count <= 0 THEN 0 ELSE issued[Len(issued) - count]

\* the committed tables of a run that puts all its subsets into a single batch
InOneBatch(start, seq) ==
    LET subsets == Drain(num_races, GenStart(num_races))
        standings_all == [ k \in DOMAIN subsets |->
                             CalculateStandings(drivers, scores, subsets[k], tie_order) ]
        batch == [ k \in DOMAIN subsets |-> ChampionshipTuple(subsets[k], standings_all[k]) ]
        first_id == MaxChampionshipId(start.championship_results) + 1
    IN [ championship_results |-> SaveToDatabase(start.championship_results, seq, batch).table,
         position_results |-> SavePositionResults(start.position_results,
                                                  PositionData(standings_all, first_id, 0)) ]

\* C27: the outcome of a process run does not depend on the batch size: for
\* every batch_size >= 1 the committed championship and position rows
\* (contents, order and ids) are those of a run with a single batch of all
\* 2^N - 1 subsets, and the in-memory batch never holds more than batch_size
\* championship rows.
C27_BatchSizeIndependent ==
    /\ pc # "idle" => Len(championship_data_batch) <= batch_size
    /\ pc = "idle" /\ run = "process_data" /\ last_run = "completed" =>
          LET one == InOneBatch(at_start, SequenceAtStart(Pow2(num_races) - 1)) IN
             /\ championship_results = one.championship_results
             /\ position_results = one.position_results

\* a completed run whose three subsets went out in a batch of two and a final
\* batch of one, on top of the rows of an earlier run
C27_Witness ==
    /\ pc = "idle" /\ run = "process_data" /\ last_run = "completed"
    /\ batch_size = 2
    /\ num_races = 2
    /\ Len(championship_results) = 6

\* --------------------------------------------------- the scan's early stop
RECURSIVE ScanAllLengths(_, _, _, _)
\* the scan over every season length from max_races down to 1, without the break
ScanAllLengths(acc, table, s, n) ==
    IF n < 1 THEN acc
    ELSE ScanAllLengths(ScanRecords(acc, ScanRows(table, s, n)), table, s, n - 1)

\* the driver_statistics rows of the season had the scan read every length
RowsOfFullScan(s) ==
    LET records == SeasonRecords(championship_results, s)
        all_drivers == DriversList(records[1].standings)
        max_races == SetMax({ records[k].num_races : k \in DOMAIN records })
        scanned == ScanAllLengths([ driver_stats |-> [ d \in {} |-> 0 ],
                                    drivers_to_find |-> Range(all_drivers) ],
                                  championship_results, s, max_races).driver_stats
        counted == WinCounts(scanned, records)
        winners == { d \in DOMAIN counted : counted[d].highest_position = 1 }
    IN DriverStatisticsRows(BestMargins(counted, winners, records), s, now)

C30_RunsDoNotInterleave ==
    /\ \A p, q \in Processes :
          p # q /\ procs[p].pc = "loop" => procs[q].pc # "loop"
    /\ \A p \in Processes : procs[p].pc = "loop" =>
          /\ writer = p
          /\ procs[p].max_id = MaxChampionshipId(championship_results)
          /\ \A q \in Processes \ { p } :
                \/ procs[q].pc \in { "start", "failed" } /\ procs[q].ids = << >>
                \/ procs[q].pc = "done"
                   /\ procs[q].tx_championship_results = championship_results
    /\ \A p, q \in Processes :
          p # q => Range(procs[p].ids) \cap Range(procs[q].ids) = {}
    /\ \A p \in Processes : procs[p].pc = "done" =>
          \E from \in 0..Len(championship_results) :
             SubSeq([ k \in DOMAIN championship_results |->
                        championship_results[k].championship_id ],
                    from + 1, from + Len(procs[p].ids)) = procs[p].ids

\* both runs wrote their three records, one after the other
C30_Witness ==
    /\ \A p \in Processes : procs[p].pc = "done" /\ Len(procs[p].ids) = 3
    /\ Len(championship_results) = 6

\* ------------------------------------------------------------- add-race
\* the parts of a results string between its commas, blank ones left out
PairsOf(text) ==
    SelectSeq([ k \in DOMAIN Split(text) |-> Strip(Split(text)[k]) ], LAMBDA t : t # << >>)

\* DRIVER:POINTS with a 3-letter code and integer points
IsDriverPointsPair(pair) ==
    \E k \in DOMAIN pair :
       /\ pair[k] = ":"
       /\ \A j \in DOMAIN pair : pair[j] = ":" => j = k
       /\ LET code == Upper(Strip(SubSeq(pair, 1, k - 1))) IN
             /\ Len(code) = 3
             /\ \A j \in DOMAIN code : code[j] \in Range(UpperChars)
       /\ IsInt(SubSeq(pair, k + 1, Len(pair)))

\* the invocation is one the claim says is rejected
BadInvocation(a) ==
    \/ a.race_num < 1
    \/ a.race_num > MaxRaceNumber
    \/ PairsOf(a.results) = << >>
    \/ \E k \in DOMAIN PairsOf(a.results) : ~IsDriverPointsPair(PairsOf(a.results)[k])
    \/ ConfigDrivers(a.season) = NULL

\* C21: add-race rejects an invocation whose race number is outside 1..24,
\* whose results string does not parse as DRIVER:POINTS pairs with 3-letter
\* codes and integer points, or whose season has no config file: it reports
\* an error and leaves both the season CSV and the database unchanged.
C21_BadInvocationRejected ==
    [][add_race.pc = "invoked" /\ add_race'.pc # "invoked" /\ BadInvocation(add_race) =>
          /\ add_race'.pc = "done"
          /\ add_race'.outcome \in { "Invalid race number", "Invalid format",
                                     "Invalid points value", "Invalid driver code",
                                     "No valid race results provided",
                                     "Season config not found" }
          /\ UNCHANGED << season_csv, storage_vars >>]_vars

\* an invocation for a season without config file was turned down while the
\* other season's file was there
C21_Witness ==
    /\ add_race.pc = "done"
    /\ add_race.outcome = "Season config not found"
    /\ add_race.race_num \in 1..MaxRaceNumber
    /\ season_csv[DefaultSeason].exists

\* C22: saving season data with save_season_csv and loading it back with
\* load_season_csv round-trips: the loaded driver list equals the saved one
\* in the same order, and for every driver and every round 1..max_round the
\* loaded points equal the saved points, with 0 for rounds the saved data did
\* not contain.
C22_SaveThenLoadRoundTrips ==
    add_race.outcome = "saved" =>
        LET saved == add_race.saved
            loaded == LoadSeasonCsv(season_csv[add_race.season])
        IN /\ season_csv[add_race.season]
                 = SaveSeasonCsv(saved.drivers, saved.race_data, saved.max_round)
           /\ loaded.drivers = saved.drivers
           /\ \A d \in Range(saved.drivers) : \A r \in 1..saved.max_round :
                 /\ d \in DOMAIN loaded.race_data
                 /\ r \in DOMAIN loaded.race_data[d]
                 /\ loaded.race_data[d][r]
                       = (IF r \in DOMAIN saved.race_data[d] THEN saved.race_data[d][r] ELSE 0)

\* a file saved with four drivers and two rounds, the first of which the
\* saved data did not contain, and with negative points in it
C22_Witness ==
    /\ add_race.outcome = "saved"
    /\ Len(add_race.saved.drivers) = 4
    /\ add_race.saved.max_round = 2
    /\ \A d \in Range(add_race.saved.drivers) : 1 \notin DOMAIN add_race.saved.race_data[d]
    /\ \E d \in Range(add_race.saved.drivers) : add_race.saved.race_data[d][2] < 0

\* C25: an add-race that saved the season file and was not asked to skip the
\* reprocess completes, and the database then holds for that season exactly
\* the 2^R - 1 championship records of the updated file (R its highest round
\* number) and driver statistics for the season.
C25_AddRaceRegeneratesTheSeason ==
    /\ add_race.pc \in { "done", "failed" }
    /\ add_race.outcome = "saved"
    /\ ~ add_race.skip_reprocess
    => /\ add_race.pc = "done"
       /\ Cardinality(SeasonRows(championship_results, add_race.season))
             = Pow2(add_race.saved.max_round) - 1
       /\ \E st \in driver_statistics : st.season = add_race.season

====
